---- MODULE Spec2Model ----
(***************************************************************************)
(* The tiered commitment tree of penumbra's tct crate: an Eternity of      *)
(* Epochs of Blocks of commitments, each tier a quad-tree of TierDepth     *)
(* levels with a mutable (active) rightmost spine and a frozen (complete)  *)
(* interior.  Hashes are symbolic terms, so Hash::node and Hash::of are    *)
(* injective and domain-separated by construction.                         *)
(*                                                                         *)
(* Values                                                                  *)
(*   Hash            <<"default">> | <<"of", c>> | <<"node", h, a,b,c,d>>  *)
(*   Insert<T>       [tag |-> "Keep", val |-> T] | [tag |-> "Hash", val]   *)
(*   CachedHash      <<>> (empty) | <<h>>                                  *)
(*   complete node   [hash |-> CachedHash, children |-> 4 Insert]          *)
(*   active node     [siblings |-> 0..3 Insert, focus |-> active child]    *)
(*   active leaf     [item |-> Insert<Item>]                               *)
(*   Tier            [len, witnessed, inner |-> [st, val]]                 *)
(* A node is addressed by its tier t (1 block, 2 epoch, 3 eternity) and    *)
(* its level k inside the tier (TierDepth at the tier's root, 0 at its     *)
(* leaves); the leaves of tier t > 1 are tiers t - 1.                      *)
(***************************************************************************)
EXTENDS Integers, Sequences, FiniteSets, TLC

\* Levels per tier (8 in the program); the model runs the same algorithms on
\* shallower tiers.
TierDepth == 1

\* Number of distinct commitments the environment can draw.
NumCommitments == 2

\* Number of operations performed on the eternity in one behaviour.
MaxOps == 5

Commitments == 1..NumCommitments

RECURSIVE Pow4(_)
Pow4(n) == IF n = 0 THEN 1 ELSE 4 * Pow4(n - 1)

\* Capacity of one tier, and with it the range of each index field
\* (65,536 = 2^16 in the program: the fields are u16).
Cap == Pow4(TierDepth)

IndexMAX == Cap - 1

\* Height of the node at level k of tier t.
HeightOf(t, k) == (t - 1) * TierDepth + k

-----------------------------------------------------------------------------
(* Hash, Insert, CachedHash *)

HashDefault == <<"default">>

HashOf(c) == <<"of", c>>

HashNode(h, a, b, c, d) == <<"node", h, a, b, c, d>>

Keep(x) == [tag |-> "Keep", val |-> x]

HashIns(h) == [tag |-> "Hash", val |-> h]

NoHash == <<>>

None == <<>>

Some(x) == <<x>>

-----------------------------------------------------------------------------
(* index arithmetic *)

\* index::within::Eternity as u64: epoch || block || commitment.
PosU64(p) == (p.epoch * Cap + p.block) * Cap + p.commitment

\* u16 increment of one index field.
Increment(x) == IF x < IndexMAX THEN x + 1 ELSE x

\* WhichWay::at(height, index): the two bits of the index that select the
\* child of a node at this height (0 leftmost .. 3 rightmost).
WhichWayAt(height, index) == (index \div Pow4(height - 1)) % 4

-----------------------------------------------------------------------------
(* complete nodes *)

\* Children::try_from fails exactly on four hashes.
AllHash(ch) == \A i \in 1..4 : ch[i].tag = "Hash"

\* Faulty variant: the node hash of four hashes taken with the first two swapped.
FromChildrenOrElseHash_swapped(height, ch) ==
    IF AllHash(ch)
    THEN HashIns(HashNode(height, ch[2].val, ch[1].val, ch[3].val, ch[4].val))
    ELSE Keep([hash |-> NoHash, children |-> ch])

\* Faulty variant: a node is built also when every child is a hash.
FromChildrenOrElseHash_keeps_hashes(height, ch) ==
    Keep([hash |-> NoHash, children |-> ch])

\* Faulty variant: the hash that stands for the node is taken at the height
\* of its children.
FromChildrenOrElseHash_child_height(height, ch) ==
    IF AllHash(ch)
    THEN HashIns(HashNode(height - 1, ch[1].val, ch[2].val, ch[3].val, ch[4].val))
    ELSE Keep([hash |-> NoHash, children |-> ch])

\* Faulty variant: the node that is kept holds the children one slot to the
\* left.
FromChildrenOrElseHash_rotated(height, ch) ==
    IF AllHash(ch)
    THEN HashIns(HashNode(height, ch[1].val, ch[2].val, ch[3].val, ch[4].val))
    ELSE Keep([hash |-> NoHash, children |-> [i \in 1..4 |-> ch[(i % 4) + 1]]])

FromChildrenOrElseHash(height, ch) ==
    IF AllHash(ch)
    THEN HashIns(HashNode(height, ch[1].val, ch[2].val, ch[3].val, ch[4].val))
    ELSE Keep([hash |-> NoHash, children |-> ch])

Zero == HashIns(HashDefault)

\* Faulty variant: the empty slots are filled in before the children.
FromSiblingsAndFocusOrElseHash_pads_left(height, siblings, focus) ==
    LET pushed == Append(siblings, focus)
        pad == 4 - Len(pushed)
    IN  FromChildrenOrElseHash(height,
            [i \in 1..4 |-> IF i <= pad THEN Zero ELSE pushed[i - pad]])

FromSiblingsAndFocusOrElseHash(height, siblings, focus) ==
    LET pushed == Append(siblings, focus)
    IN  FromChildrenOrElseHash(height,
            [i \in 1..4 |-> IF i <= Len(pushed) THEN pushed[i] ELSE Zero])

RECURSIVE CompleteHash(_, _, _)
\* GetHash::hash of a complete subtree: a leaf hashes its item, a node
\* returns its cached hash when there is one and the node hash of its
\* children otherwise.
CompleteHash(t, k, x) ==
    IF k = 0
    THEN IF t = 1 THEN HashOf(x) ELSE CompleteHash(t - 1, TierDepth, x)
    ELSE IF x.hash # NoHash THEN x.hash[1]
    ELSE LET h(i) == IF x.children[i].tag = "Hash" THEN x.children[i].val
                     ELSE CompleteHash(t, k - 1, x.children[i].val)
         IN  HashNode(HeightOf(t, k), h(1), h(2), h(3), h(4))

CompleteInsertHash(t, k, ins) ==
    IF ins.tag = "Hash" THEN ins.val ELSE CompleteHash(t, k, ins.val)

RECURSIVE CompleteFill(_, _, _)
\* Faulty variant: the node hash is taken at the height of the children.
CompleteFill_child_height(t, k, x) ==
    IF k = 0
    THEN IF t = 1 THEN x ELSE CompleteFill(t - 1, TierDepth, x)
    ELSE IF x.hash # NoHash THEN x
    ELSE LET ch == [i \in 1..4 |->
                      IF x.children[i].tag = "Hash" THEN x.children[i]
                      ELSE Keep(CompleteFill(t, k - 1, x.children[i].val))]
             hs == [i \in 1..4 |-> CompleteInsertHash(t, k - 1, ch[i])]
         IN  [hash |-> Some(HashNode(HeightOf(t, k) - 1, hs[1], hs[2], hs[3], hs[4])),
              children |-> ch]

\* The effect of hash() on the caches of a complete subtree: a node with an
\* empty cache hashes its children (filling theirs) and stores the result.
CompleteFill(t, k, x) ==
    IF k = 0
    THEN IF t = 1 THEN x ELSE CompleteFill(t - 1, TierDepth, x)
    ELSE IF x.hash # NoHash THEN x
    ELSE LET ch == [i \in 1..4 |->
                      IF x.children[i].tag = "Hash" THEN x.children[i]
                      ELSE Keep(CompleteFill(t, k - 1, x.children[i].val))]
             hs == [i \in 1..4 |-> CompleteInsertHash(t, k - 1, ch[i])]
         IN  [hash |-> Some(HashNode(HeightOf(t, k), hs[1], hs[2], hs[3], hs[4])),
              children |-> ch]

CompleteInsertFill(t, k, ins) ==
    IF ins.tag = "Hash" THEN ins ELSE Keep(CompleteFill(t, k, ins.val))

RECURSIVE ForgetOwned(_, _, _, _)
\* Faulty variant: the node is reassembled with the forgotten child and its right
\* neighbour in each other's place.
ForgetOwned_misplaced(t, k, x, index) ==
    IF k = 0
    THEN IF t = 1
         THEN [node |-> HashIns(HashOf(x)), forgotten |-> TRUE]
         ELSE ForgetOwned(t - 1, TierDepth, x, index)
    ELSE LET w == WhichWayAt(HeightOf(t, k), index) + 1
             v == (w % 4) + 1
             Carry(reconstructed) ==
                 IF reconstructed.tag = "Keep" /\ x.hash # NoHash
                 THEN Keep([reconstructed.val EXCEPT !.hash = x.hash])
                 ELSE reconstructed
             Put(sub) ==
                 [node |-> Carry(FromChildrenOrElseHash(HeightOf(t, k),
                              [x.children EXCEPT ![w] = x.children[v],
                                                 ![v] = sub.node])),
                  forgotten |-> sub.forgotten]
         IN  Put(IF x.children[w].tag = "Keep"
                 THEN ForgetOwned(t, k - 1, x.children[w].val, index)
                 ELSE [node |-> x.children[w], forgotten |-> FALSE])

\* Faulty variant: a child that is already a hash counts as forgotten.
ForgetOwned_counts_hash(t, k, x, index) ==
    IF k = 0
    THEN IF t = 1
         THEN [node |-> HashIns(HashOf(x)), forgotten |-> TRUE]
         ELSE ForgetOwned(t - 1, TierDepth, x, index)
    ELSE LET w == WhichWayAt(HeightOf(t, k), index) + 1
             Carry(reconstructed) ==
                 IF reconstructed.tag = "Keep" /\ x.hash # NoHash
                 THEN Keep([reconstructed.val EXCEPT !.hash = x.hash])
                 ELSE reconstructed
             Put(sub) ==
                 [node |-> Carry(FromChildrenOrElseHash(HeightOf(t, k),
                              [x.children EXCEPT ![w] = sub.node])),
                  forgotten |-> sub.forgotten]
         IN  Put(IF x.children[w].tag = "Keep"
                 THEN ForgetOwned(t, k - 1, x.children[w].val, index)
                 ELSE [node |-> x.children[w], forgotten |-> TRUE])

\* ForgetOwned::forget_owned: returns [node |-> Insert<Self>, forgotten].
ForgetOwned(t, k, x, index) ==
    IF k = 0
    THEN IF t = 1
         THEN [node |-> HashIns(HashOf(x)), forgotten |-> TRUE]
         ELSE ForgetOwned(t - 1, TierDepth, x, index)
    ELSE LET w == WhichWayAt(HeightOf(t, k), index) + 1
             Carry(reconstructed) ==
                 IF reconstructed.tag = "Keep" /\ x.hash # NoHash
                 THEN Keep([reconstructed.val EXCEPT !.hash = x.hash])
                 ELSE reconstructed
             Put(sub) ==
                 [node |-> Carry(FromChildrenOrElseHash(HeightOf(t, k),
                              [x.children EXCEPT ![w] = sub.node])),
                  forgotten |-> sub.forgotten]
         IN  Put(IF x.children[w].tag = "Keep"
                 THEN ForgetOwned(t, k - 1, x.children[w].val, index)
                 ELSE [node |-> x.children[w], forgotten |-> FALSE])

RECURSIVE CompleteWitness(_, _, _, _)
\* Faulty variant: the sibling hashes are listed right to left.
CompleteWitness_reversed(t, k, x, index) ==
    IF k = 0
    THEN IF t = 1
         THEN Some([path |-> <<>>, leaf |-> HashOf(x)])
         ELSE CompleteWitness(t - 1, TierDepth, x, index)
    ELSE LET w == WhichWayAt(HeightOf(t, k), index) + 1
             others == SelectSeq(<<4, 3, 2, 1>>, LAMBDA i : i # w)
             siblings == [j \in 1..3 |->
                            CompleteInsertHash(t, k - 1, x.children[others[j]])]
             child == x.children[w]
         IN  IF child.tag # "Keep" THEN None
             ELSE LET sub == CompleteWitness(t, k - 1, child.val, index)
                  IN  IF sub = None THEN None
                      ELSE Some([path |-> <<siblings>> \o sub[1].path,
                                 leaf |-> sub[1].leaf])

\* Faulty variant: the first three children are hashed, whichever child is
\* selected.
CompleteWitness_first_three(t, k, x, index) ==
    IF k = 0
    THEN IF t = 1
         THEN Some([path |-> <<>>, leaf |-> HashOf(x)])
         ELSE CompleteWitness(t - 1, TierDepth, x, index)
    ELSE LET w == WhichWayAt(HeightOf(t, k), index) + 1
             siblings == [j \in 1..3 |-> CompleteInsertHash(t, k - 1, x.children[j])]
             child == x.children[w]
         IN  IF child.tag # "Keep" THEN None
             ELSE LET sub == CompleteWitness(t, k - 1, child.val, index)
                  IN  IF sub = None THEN None
                      ELSE Some([path |-> <<siblings>> \o sub[1].path,
                                 leaf |-> sub[1].leaf])

\* Witness::witness of a complete subtree: None, or Some of the sibling
\* hashes from this node down to the leaf and the leaf's hash.
CompleteWitness(t, k, x, index) ==
    IF k = 0
    THEN IF t = 1
         THEN Some([path |-> <<>>, leaf |-> HashOf(x)])
         ELSE CompleteWitness(t - 1, TierDepth, x, index)
    ELSE LET w == WhichWayAt(HeightOf(t, k), index) + 1
             others == SelectSeq(<<1, 2, 3, 4>>, LAMBDA i : i # w)
             siblings == [j \in 1..3 |->
                            CompleteInsertHash(t, k - 1, x.children[others[j]])]
             child == x.children[w]
         IN  IF child.tag # "Keep" THEN None
             ELSE LET sub == CompleteWitness(t, k - 1, child.val, index)
                  IN  IF sub = None THEN None
                      ELSE Some([path |-> <<siblings>> \o sub[1].path,
                                 leaf |-> sub[1].leaf])

RECURSIVE CompleteWitnessFill(_, _, _, _)
\* The effect of witness() on the caches: the three siblings of the chosen
\* child are hashed at every node on the way down.
CompleteWitnessFill(t, k, x, index) ==
    IF k = 0
    THEN IF t = 1 THEN x ELSE CompleteWitnessFill(t - 1, TierDepth, x, index)
    ELSE LET w == WhichWayAt(HeightOf(t, k), index) + 1
         IN  [x EXCEPT !.children =
                [i \in 1..4 |->
                   IF i # w THEN CompleteInsertFill(t, k - 1, x.children[i])
                   ELSE IF x.children[i].tag = "Keep"
                        THEN Keep(CompleteWitnessFill(t, k - 1, x.children[i].val, index))
                        ELSE x.children[i]]]

-----------------------------------------------------------------------------
(* active nodes and tiers *)

RECURSIVE ActiveSingleton(_, _)
ActiveSingleton(k, item) ==
    IF k = 0 THEN [item |-> item]
    ELSE [siblings |-> <<>>, focus |-> ActiveSingleton(k - 1, item)]

RECURSIVE ActiveFocus(_, _)
\* Active::focus: the most recently inserted Insert<Item>.
ActiveFocus(k, a) == IF k = 0 THEN a.item ELSE ActiveFocus(k - 1, a.focus)

RECURSIVE ActiveUpdate(_, _, _)
\* Active::update with a function that leaves `item` in the focused leaf.
ActiveUpdate(k, a, item) ==
    IF k = 0 THEN [item |-> item]
    ELSE [a EXCEPT !.focus = ActiveUpdate(k - 1, a.focus, item)]

RECURSIVE TierHash(_, _)
RECURSIVE ActiveHash(_, _, _)
RECURSIVE TierFinalize(_, _)
RECURSIVE ActiveFinalize(_, _, _)
RECURSIVE TierFill(_, _)
RECURSIVE ActiveFill(_, _, _)
RECURSIVE TierForget(_, _, _)
RECURSIVE ActiveForget(_, _, _, _)
RECURSIVE TierWitness(_, _, _)
RECURSIVE ActiveWitness(_, _, _, _)
RECURSIVE TierWitnessFill(_, _, _)
RECURSIVE ActiveWitnessFill(_, _, _, _)

TierNew == [len |-> 0, witnessed |-> 0, inner |-> [st |-> "Active", val |-> None]]

\* Faulty variant: a Complete or Hash tier counts as empty too.
TierIsEmpty_not_active(tier) ==
    tier.inner.st # "Active" \/ tier.inner.val = None

TierIsEmpty(tier) ==
    tier.inner.st = "Active" /\ tier.inner.val = None

TierFocus(tier) ==
    IF tier.inner.st = "Active" /\ tier.inner.val # None
    THEN Some(ActiveFocus(TierDepth, tier.inner.val[1]))
    ELSE None

\* Faulty variant: an empty tier takes the item as its first one.
TierUpdate_on_empty(tier, item) ==
    IF tier.inner.st = "Active"
    THEN IF tier.inner.val = None
         THEN [tier EXCEPT !.inner.val = Some(ActiveSingleton(TierDepth, item))]
         ELSE [tier EXCEPT !.inner.val = Some(ActiveUpdate(TierDepth, tier.inner.val[1], item))]
    ELSE tier

\* Tier::update with a function that leaves `item` in the focused leaf; the
\* function is not called when there is no focus.
TierUpdate(tier, item) ==
    IF tier.inner.st = "Active" /\ tier.inner.val # None
    THEN [tier EXCEPT !.inner.val = Some(ActiveUpdate(TierDepth, tier.inner.val[1], item))]
    ELSE tier

\* Faulty variant: an empty tier hashes as a node over four empty children.
TierHash_empty_node(t, tier) ==
    IF tier.inner.st = "Active"
    THEN IF tier.inner.val = None
         THEN HashNode(HeightOf(t, TierDepth),
                       HashDefault, HashDefault, HashDefault, HashDefault)
         ELSE ActiveHash(t, TierDepth, tier.inner.val[1])
    ELSE IF tier.inner.st = "Complete"
    THEN CompleteHash(t, TierDepth, tier.inner.val)
    ELSE tier.inner.val

TierHash(t, tier) ==
    IF tier.inner.st = "Active"
    THEN IF tier.inner.val = None THEN HashDefault
         ELSE ActiveHash(t, TierDepth, tier.inner.val[1])
    ELSE IF tier.inner.st = "Complete"
    THEN CompleteHash(t, TierDepth, tier.inner.val)
    ELSE tier.inner.val

ActiveHash(t, k, a) ==
    IF k = 0
    THEN IF a.item.tag = "Hash" THEN a.item.val
         ELSE IF t = 1 THEN HashOf(a.item.val)
         ELSE TierHash(t - 1, a.item.val)
    ELSE LET n == Len(a.siblings)
             h(i) == IF i <= n THEN CompleteInsertHash(t, k - 1, a.siblings[i])
                     ELSE IF i = n + 1 THEN ActiveHash(t, k - 1, a.focus)
                     ELSE HashDefault
         IN  HashNode(HeightOf(t, k), h(1), h(2), h(3), h(4))

\* Faulty variant: an empty tier finalizes to the hash of a node of default
\* hashes.
TierFinalize_empty_node(t, tier) ==
    IF tier.inner.st = "Active"
    THEN IF tier.inner.val = None
         THEN HashIns(HashNode(HeightOf(t, TierDepth),
                               HashDefault, HashDefault, HashDefault, HashDefault))
         ELSE ActiveFinalize(t, TierDepth, tier.inner.val[1])
    ELSE IF tier.inner.st = "Complete" THEN Keep(tier.inner.val)
    ELSE HashIns(tier.inner.val)

TierFinalize(t, tier) ==
    IF tier.inner.st = "Active"
    THEN IF tier.inner.val = None THEN HashIns(HashDefault)
         ELSE ActiveFinalize(t, TierDepth, tier.inner.val[1])
    ELSE IF tier.inner.st = "Complete" THEN Keep(tier.inner.val)
    ELSE HashIns(tier.inner.val)

ActiveFinalize(t, k, a) ==
    IF k = 0
    THEN IF a.item.tag = "Hash" THEN a.item
         ELSE IF t = 1 THEN a.item
         ELSE TierFinalize(t - 1, a.item.val)
    ELSE FromSiblingsAndFocusOrElseHash(HeightOf(t, k), a.siblings,
                                        ActiveFinalize(t, k - 1, a.focus))

\* The effect of hash() on the caches beneath a tier.
TierFill(t, tier) ==
    IF tier.inner.st = "Active"
    THEN IF tier.inner.val = None THEN tier
         ELSE [tier EXCEPT !.inner.val = Some(ActiveFill(t, TierDepth, tier.inner.val[1]))]
    ELSE IF tier.inner.st = "Complete"
    THEN [tier EXCEPT !.inner.val = CompleteFill(t, TierDepth, tier.inner.val)]
    ELSE tier

ActiveFill(t, k, a) ==
    IF k = 0
    THEN IF a.item.tag = "Hash" \/ t = 1 THEN a
         ELSE [item |-> Keep(TierFill(t - 1, a.item.val))]
    ELSE [siblings |-> [i \in 1..Len(a.siblings) |->
                          CompleteInsertFill(t, k - 1, a.siblings[i])],
          focus |-> ActiveFill(t, k - 1, a.focus)]

\* Forget::forget of a tier: returns [tier, forgotten].
TierForget(t, tier, index) ==
    IF tier.inner.st = "Active"
    THEN IF tier.inner.val = None THEN [tier |-> tier, forgotten |-> FALSE]
         ELSE LET Put(r) == [tier |-> [tier EXCEPT !.inner.val = Some(r.node)],
                             forgotten |-> r.forgotten]
              IN  Put(ActiveForget(t, TierDepth, tier.inner.val[1], index))
    ELSE IF tier.inner.st = "Complete"
    THEN LET Put(r) == [tier |-> [tier EXCEPT !.inner =
                                    IF r.node.tag = "Keep"
                                    THEN [st |-> "Complete", val |-> r.node.val]
                                    ELSE [st |-> "Hash", val |-> r.node.val]],
                        forgotten |-> r.forgotten]
         IN  Put(ForgetOwned(t, TierDepth, tier.inner.val, index))
    ELSE [tier |-> tier, forgotten |-> FALSE]

\* Forget::forget of an active subtree: returns [node, forgotten].
ActiveForget(t, k, a, index) ==
    IF k = 0
    THEN IF a.item.tag = "Hash" THEN [node |-> a, forgotten |-> FALSE]
         ELSE IF t = 1
         THEN [node |-> [item |-> HashIns(HashOf(a.item.val))], forgotten |-> TRUE]
         ELSE LET Put(r) == [node |-> [item |-> Keep(r.tier)],
                             forgotten |-> r.forgotten]
              IN  Put(TierForget(t - 1, a.item.val, index))
    ELSE LET w == WhichWayAt(HeightOf(t, k), index) + 1
             n == Len(a.siblings)
             PutSibling(r) == [node |-> [a EXCEPT !.siblings[w] = r.node],
                               forgotten |-> r.forgotten]
             PutFocus(r) == [node |-> [a EXCEPT !.focus = r.node],
                             forgotten |-> r.forgotten]
         IN  IF w <= n
             THEN IF a.siblings[w].tag = "Hash"
                  THEN [node |-> a, forgotten |-> FALSE]
                  ELSE PutSibling(ForgetOwned(t, k - 1, a.siblings[w].val, index))
             ELSE IF w = n + 1
             THEN PutFocus(ActiveForget(t, k - 1, a.focus, index))
             ELSE [node |-> a, forgotten |-> FALSE]

\* Witness::witness of a tier.
TierWitness(t, tier, index) ==
    IF tier.inner.st = "Active"
    THEN IF tier.inner.val = None THEN None
         ELSE ActiveWitness(t, TierDepth, tier.inner.val[1], index)
    ELSE IF tier.inner.st = "Complete"
    THEN CompleteWitness(t, TierDepth, tier.inner.val, index)
    ELSE None

ActiveWitness(t, k, a, index) ==
    IF k = 0
    THEN IF a.item.tag = "Hash" THEN None
         ELSE IF t = 1 THEN Some([path |-> <<>>, leaf |-> HashOf(a.item.val)])
         ELSE TierWitness(t - 1, a.item.val, index)
    ELSE LET w == WhichWayAt(HeightOf(t, k), index) + 1
             n == Len(a.siblings)
             h(i) == IF i <= n THEN CompleteInsertHash(t, k - 1, a.siblings[i])
                     ELSE IF i = n + 1 THEN ActiveHash(t, k - 1, a.focus)
                     ELSE HashDefault
             others == SelectSeq(<<1, 2, 3, 4>>, LAMBDA i : i # w)
             siblings == [j \in 1..3 |-> h(others[j])]
             sub == IF w <= n
                    THEN IF a.siblings[w].tag = "Hash" THEN None
                         ELSE CompleteWitness(t, k - 1, a.siblings[w].val, index)
                    ELSE IF w = n + 1 THEN ActiveWitness(t, k - 1, a.focus, index)
                    ELSE None
         IN  IF sub = None THEN None
             ELSE Some([path |-> <<siblings>> \o sub[1].path, leaf |-> sub[1].leaf])

\* The effect of witness() on the caches beneath a tier.
TierWitnessFill(t, tier, index) ==
    IF tier.inner.st = "Active"
    THEN IF tier.inner.val = None THEN tier
         ELSE [tier EXCEPT !.inner.val =
                 Some(ActiveWitnessFill(t, TierDepth, tier.inner.val[1], index))]
    ELSE IF tier.inner.st = "Complete"
    THEN [tier EXCEPT !.inner.val =
            CompleteWitnessFill(t, TierDepth, tier.inner.val, index)]
    ELSE tier

ActiveWitnessFill(t, k, a, index) ==
    IF k = 0
    THEN IF a.item.tag = "Hash" \/ t = 1 THEN a
         ELSE [item |-> Keep(TierWitnessFill(t - 1, a.item.val, index))]
    ELSE LET w == WhichWayAt(HeightOf(t, k), index) + 1
             n == Len(a.siblings)
         IN  [siblings |-> [i \in 1..n |->
                 IF i # w THEN CompleteInsertFill(t, k - 1, a.siblings[i])
                 ELSE IF a.siblings[i].tag = "Keep"
                      THEN Keep(CompleteWitnessFill(t, k - 1, a.siblings[i].val, index))
                      ELSE a.siblings[i]],
              focus |-> IF w = n + 1 THEN ActiveWitnessFill(t, k - 1, a.focus, index)
                        ELSE ActiveFill(t, k - 1, a.focus)]

RECURSIVE ActiveInsert(_, _, _, _)
\* Active::insert: [ok |-> TRUE, val |-> the subtree with the item inserted]
\* or, when the subtree is full, [ok |-> FALSE, complete, item].
ActiveInsert(t, k, a, item) ==
    IF k = 0
    THEN [ok |-> FALSE, complete |-> ActiveFinalize(t, 0, a), item |-> item]
    ELSE LET r == ActiveInsert(t, k - 1, a.focus, item)
         IN  IF r.ok THEN [ok |-> TRUE, val |-> [a EXCEPT !.focus = r.val]]
             ELSE IF Len(a.siblings) < 3
             THEN [ok |-> TRUE,
                   val |-> [siblings |-> Append(a.siblings, r.complete),
                            focus |-> ActiveSingleton(k - 1, r.item)]]
             ELSE [ok |-> FALSE,
                   complete |-> FromChildrenOrElseHash(HeightOf(t, k),
                                    Append(a.siblings, r.complete)),
                   item |-> r.item]

\* Faulty variant: a full tier hands back the item under its focus.
TierInsert_hands_back_focus(t, tier, item) ==
    IF tier.inner.st # "Active" THEN [tier |-> tier, ok |-> FALSE, item |-> item]
    ELSE IF tier.inner.val = None
    THEN [tier |-> [tier EXCEPT !.inner.val = Some(ActiveSingleton(TierDepth, item))],
          ok |-> TRUE, item |-> item]
    ELSE LET r == ActiveInsert(t, TierDepth, tier.inner.val[1], item)
         IN  IF r.ok
             THEN [tier |-> [tier EXCEPT !.inner.val = Some(r.val)],
                   ok |-> TRUE, item |-> item]
             ELSE [tier |-> [tier EXCEPT !.inner =
                               IF r.complete.tag = "Keep"
                               THEN [st |-> "Complete", val |-> r.complete.val]
                               ELSE [st |-> "Hash", val |-> r.complete.val]],
                   ok |-> FALSE,
                   item |-> ActiveFocus(TierDepth, tier.inner.val[1])]

\* Faulty variant: a full tier that refuses an item is left as mem::take
\* left it, empty.
TierInsert_left_taken(t, tier, item) ==
    IF tier.inner.st # "Active" THEN [tier |-> tier, ok |-> FALSE, item |-> item]
    ELSE IF tier.inner.val = None
    THEN [tier |-> [tier EXCEPT !.inner.val = Some(ActiveSingleton(TierDepth, item))],
          ok |-> TRUE, item |-> item]
    ELSE LET r == ActiveInsert(t, TierDepth, tier.inner.val[1], item)
         IN  IF r.ok
             THEN [tier |-> [tier EXCEPT !.inner.val = Some(r.val)],
                   ok |-> TRUE, item |-> item]
             ELSE [tier |-> [tier EXCEPT !.inner.val = None],
                   ok |-> FALSE, item |-> r.item]

\* Faulty variant: a Complete or Hash tier starts afresh with the item.
TierInsert_reopens(t, tier, item) ==
    IF tier.inner.st # "Active" \/ tier.inner.val = None
    THEN [tier |-> [tier EXCEPT !.inner = [st |-> "Active",
                                          val |-> Some(ActiveSingleton(TierDepth, item))]],
          ok |-> TRUE, item |-> item]
    ELSE LET r == ActiveInsert(t, TierDepth, tier.inner.val[1], item)
         IN  IF r.ok
             THEN [tier |-> [tier EXCEPT !.inner.val = Some(r.val)],
                   ok |-> TRUE, item |-> item]
             ELSE [tier |-> [tier EXCEPT !.inner =
                               IF r.complete.tag = "Keep"
                               THEN [st |-> "Complete", val |-> r.complete.val]
                               ELSE [st |-> "Hash", val |-> r.complete.val]],
                   ok |-> FALSE, item |-> r.item]

\* Faulty variant: a full tier that refuses an item always becomes a hash.
TierInsert_always_hash(t, tier, item) ==
    IF tier.inner.st # "Active" THEN [tier |-> tier, ok |-> FALSE, item |-> item]
    ELSE IF tier.inner.val = None
    THEN [tier |-> [tier EXCEPT !.inner.val = Some(ActiveSingleton(TierDepth, item))],
          ok |-> TRUE, item |-> item]
    ELSE LET r == ActiveInsert(t, TierDepth, tier.inner.val[1], item)
         IN  IF r.ok
             THEN [tier |-> [tier EXCEPT !.inner.val = Some(r.val)],
                   ok |-> TRUE, item |-> item]
             ELSE [tier |-> [tier EXCEPT !.inner =
                               [st |-> "Hash", val |-> CompleteInsertHash(t, TierDepth, r.complete)]],
                   ok |-> FALSE, item |-> r.item]

\* Faulty variant: a full tier puts the item in the place of the one it took
\* last.
TierInsert_replaces_last(t, tier, item) ==
    IF tier.inner.st # "Active" THEN [tier |-> tier, ok |-> FALSE, item |-> item]
    ELSE IF tier.inner.val = None
    THEN [tier |-> [tier EXCEPT !.inner.val = Some(ActiveSingleton(TierDepth, item))],
          ok |-> TRUE, item |-> item]
    ELSE LET r == ActiveInsert(t, TierDepth, tier.inner.val[1], item)
         IN  IF r.ok
             THEN [tier |-> [tier EXCEPT !.inner.val = Some(r.val)],
                   ok |-> TRUE, item |-> item]
             ELSE [tier |-> [tier EXCEPT !.inner.val =
                               Some(ActiveUpdate(TierDepth, tier.inner.val[1], item))],
                   ok |-> TRUE, item |-> item]

\* Tier::insert: [tier, ok, item]; a full active tier becomes Complete or
\* Hash and hands the item back.
TierInsert(t, tier, item) ==
    IF tier.inner.st # "Active" THEN [tier |-> tier, ok |-> FALSE, item |-> item]
    ELSE IF tier.inner.val = None
    THEN [tier |-> [tier EXCEPT !.inner.val = Some(ActiveSingleton(TierDepth, item))],
          ok |-> TRUE, item |-> item]
    ELSE LET r == ActiveInsert(t, TierDepth, tier.inner.val[1], item)
         IN  IF r.ok
             THEN [tier |-> [tier EXCEPT !.inner.val = Some(r.val)],
                   ok |-> TRUE, item |-> item]
             ELSE [tier |-> [tier EXCEPT !.inner =
                               IF r.complete.tag = "Keep"
                               THEN [st |-> "Complete", val |-> r.complete.val]
                               ELSE [st |-> "Hash", val |-> r.complete.val]],
                   ok |-> FALSE, item |-> r.item]

-----------------------------------------------------------------------------
(* Block, Epoch, Eternity *)

EmptyIndex == [c \in {} |-> 0]

\* HashedMap::insert.
IndexInsert(index, c, p) ==
    [x \in DOMAIN index \cup {c} |-> IF x = c THEN p ELSE index[x]]

\* HashedMap::remove.
IndexRemove(index, c) == [x \in DOMAIN index \ {c} |-> index[x]]

BlockNew == [position |-> 0, index |-> EmptyIndex, inner |-> TierNew]

EpochNew == [position |-> [block |-> 0, commitment |-> 0],
             index |-> EmptyIndex, inner |-> TierNew]

EternityNew == [position |-> [epoch |-> 0, block |-> 0, commitment |-> 0],
                index |-> EmptyIndex, inner |-> TierNew]

RECURSIVE ForgetAll(_, _)
\* Forget every position of a set in the eternity's tree, as the loops over
\* replaced indices do: [tier, forgotten |-> every forget returned true].
ForgetAll(tier, ps) ==
    IF ps = {} THEN [tier |-> tier, forgotten |-> TRUE]
    ELSE LET p == CHOOSE q \in ps : \A r \in ps : PosU64(q) <= PosU64(r)
             Both(f, rest) == [tier |-> rest.tier,
                               forgotten |-> f.forgotten /\ rest.forgotten]
             Then(f) == Both(f, ForgetAll(f.tier, ps \ {p}))
         IN  Then(TierForget(3, tier, PosU64(p)))

\* EpochMut: the most recent epoch of an eternity, with the eternity's block
\* and commitment counters and its index (IndexMut::Eternity).
EpochMut(E, inner) ==
    [this_epoch |-> E.position.epoch, block |-> E.position.block,
     commitment |-> E.position.commitment, index |-> E.index, inner |-> inner]

\* Eternity::update: the function gets Some(EpochMut) when the eternity's
\* focus is a kept epoch, and None otherwise.
EternityFocus(E) ==
    LET Of(f) == IF f # None /\ f[1].tag = "Keep"
                 THEN Some(EpochMut(E, f[1].val)) ELSE None
    IN  Of(TierFocus(E.inner))

\* Eternity::update: what the function did to the EpochMut, written through.
EternityUpdated(E, m) ==
    [position |-> [epoch |-> E.position.epoch, block |-> m.block,
                   commitment |-> m.commitment],
     index |-> m.index,
     inner |-> TierUpdate(E.inner, Keep(m.inner))]

\* EpochMut::insert_block_or_root: [m, ok, replaced, back |-> the input
\* handed back].
EpochMutInsertBlockOrRoot(m, block) ==
    LET was_empty == TierIsEmpty(m.inner)
        position == IF block.tag = "Hash" THEN IndexMAX ELSE block.val.position
        block_index == IF block.tag = "Hash" THEN EmptyIndex ELSE block.val.index
        item == IF block.tag = "Hash" THEN block ELSE Keep(block.val.inner)
        Inserted(r, this_block) ==
            IF ~r.ok
            THEN [m |-> [m EXCEPT !.inner = r.tier], ok |-> FALSE, replaced |-> {},
                  back |-> IF r.item.tag = "Hash" THEN r.item
                           ELSE Keep([position |-> position, index |-> block_index,
                                      inner |-> r.item.val])]
            ELSE [m |-> [m EXCEPT
                           !.inner = r.tier, !.block = this_block,
                           !.commitment = position,
                           !.index = [c \in DOMAIN m.index \cup DOMAIN block_index |->
                                        IF c \in DOMAIN block_index
                                        THEN [epoch |-> m.this_epoch,
                                              block |-> this_block,
                                              commitment |-> block_index[c]]
                                        ELSE m.index[c]]],
                  ok |-> TRUE,
                  replaced |-> {m.index[c] : c \in DOMAIN m.index \cap DOMAIN block_index},
                  back |-> block]
    IN  Inserted(TierInsert(2, m.inner, item),
                 IF was_empty THEN m.block ELSE Increment(m.block))

\* EpochMut::insert: [m, err, replaced]; err is "" on success.
EpochMutInsert(m, ins) ==
    LET Inserted(m1, r, inner) ==
            IF ~r.ok
            THEN [m |-> [m1 EXCEPT !.inner = inner], err |-> "BlockFull",
                  replaced |-> None]
            ELSE [m |-> [m1 EXCEPT
                           !.inner = inner,
                           !.commitment = Increment(m1.commitment),
                           !.index = IF ins.tag = "Keep"
                                     THEN IndexInsert(m1.index, ins.val,
                                            [epoch |-> m1.this_epoch,
                                             block |-> m1.block,
                                             commitment |-> m1.commitment])
                                     ELSE m1.index],
                  err |-> "",
                  replaced |-> IF ins.tag = "Keep" /\ ins.val \in DOMAIN m1.index
                               THEN Some(m1.index[ins.val]) ELSE None]
        InBlock(m1, r) == Inserted(m1, r, TierUpdate(m1.inner, Keep(r.tier)))
        Focused(m1, b) ==
            IF b = None \/ b[1].tag # "Keep"
            THEN [m |-> m1, err |-> "BlockForgotten", replaced |-> None]
            ELSE InBlock(m1, TierInsert(1, b[1].val, ins))
        Ensured(m0) ==
            IF ~m0.ok THEN [m |-> m0.m, err |-> "Full", replaced |-> None]
            ELSE Focused(m0.m, TierFocus(m0.m.inner))
    IN  Ensured(IF TierIsEmpty(m.inner)
                THEN EpochMutInsertBlockOrRoot(m, Keep(BlockNew))
                ELSE [m |-> m, ok |-> TRUE, replaced |-> {}])

\* Faulty variant: the epoch index is not incremented for a later epoch.
InsertEpochOrRoot_same_epoch(E, epoch) ==
    LET position == IF epoch.tag = "Hash"
                    THEN [block |-> IndexMAX, commitment |-> IndexMAX]
                    ELSE epoch.val.position
        epoch_index == IF epoch.tag = "Hash" THEN EmptyIndex ELSE epoch.val.index
        item == IF epoch.tag = "Hash" THEN epoch ELSE Keep(epoch.val.inner)
        replaced == {E.index[c] : c \in DOMAIN E.index \cap DOMAIN epoch_index}
        Inserted(r, this_epoch) ==
            IF ~r.ok
            THEN [e |-> [E EXCEPT !.inner = r.tier], ok |-> FALSE,
                  back |-> IF r.item.tag = "Hash" THEN r.item
                           ELSE Keep([position |-> position, index |-> epoch_index,
                                      inner |-> r.item.val])]
            ELSE [e |-> [position |-> [epoch |-> this_epoch,
                                       block |-> position.block,
                                       commitment |-> position.commitment],
                         index |-> [c \in DOMAIN E.index \cup DOMAIN epoch_index |->
                                      IF c \in DOMAIN epoch_index
                                      THEN [epoch |-> this_epoch,
                                            block |-> epoch_index[c].block,
                                            commitment |-> epoch_index[c].commitment]
                                      ELSE E.index[c]],
                         inner |-> ForgetAll(r.tier, replaced).tier],
                  ok |-> TRUE, back |-> epoch]
    IN  Inserted(TierInsert(3, E.inner, item), E.position.epoch)

\* Faulty variant: the leaves whose index entries the new epoch replaces stay
\* witnessed.
InsertEpochOrRoot_no_forget(E, epoch) ==
    LET was_empty == TierIsEmpty(E.inner)
        position == IF epoch.tag = "Hash"
                    THEN [block |-> IndexMAX, commitment |-> IndexMAX]
                    ELSE epoch.val.position
        epoch_index == IF epoch.tag = "Hash" THEN EmptyIndex ELSE epoch.val.index
        item == IF epoch.tag = "Hash" THEN epoch ELSE Keep(epoch.val.inner)
        Inserted(r, this_epoch) ==
            IF ~r.ok
            THEN [e |-> [E EXCEPT !.inner = r.tier], ok |-> FALSE,
                  back |-> IF r.item.tag = "Hash" THEN r.item
                           ELSE Keep([position |-> position, index |-> epoch_index,
                                      inner |-> r.item.val])]
            ELSE [e |-> [position |-> [epoch |-> this_epoch,
                                       block |-> position.block,
                                       commitment |-> position.commitment],
                         index |-> [c \in DOMAIN E.index \cup DOMAIN epoch_index |->
                                      IF c \in DOMAIN epoch_index
                                      THEN [epoch |-> this_epoch,
                                            block |-> epoch_index[c].block,
                                            commitment |-> epoch_index[c].commitment]
                                      ELSE E.index[c]],
                         inner |-> r.tier],
                  ok |-> TRUE, back |-> epoch]
    IN  Inserted(TierInsert(3, E.inner, item),
                 IF was_empty THEN E.position.epoch ELSE Increment(E.position.epoch))

\* Faulty variant: the position is taken from the epoch before the insertion
\* is known to succeed.
InsertEpochOrRoot_position_first(E, epoch) ==
    LET was_empty == TierIsEmpty(E.inner)
        position == IF epoch.tag = "Hash"
                    THEN [block |-> IndexMAX, commitment |-> IndexMAX]
                    ELSE epoch.val.position
        epoch_index == IF epoch.tag = "Hash" THEN EmptyIndex ELSE epoch.val.index
        item == IF epoch.tag = "Hash" THEN epoch ELSE Keep(epoch.val.inner)
        replaced == {E.index[c] : c \in DOMAIN E.index \cap DOMAIN epoch_index}
        Inserted(r, this_epoch) ==
            IF ~r.ok
            THEN [e |-> [E EXCEPT !.inner = r.tier,
                                  !.position.block = position.block,
                                  !.position.commitment = position.commitment],
                  ok |-> FALSE,
                  back |-> IF r.item.tag = "Hash" THEN r.item
                           ELSE Keep([position |-> position, index |-> epoch_index,
                                      inner |-> r.item.val])]
            ELSE [e |-> [position |-> [epoch |-> this_epoch,
                                       block |-> position.block,
                                       commitment |-> position.commitment],
                         index |-> [c \in DOMAIN E.index \cup DOMAIN epoch_index |->
                                      IF c \in DOMAIN epoch_index
                                      THEN [epoch |-> this_epoch,
                                            block |-> epoch_index[c].block,
                                            commitment |-> epoch_index[c].commitment]
                                      ELSE E.index[c]],
                         inner |-> ForgetAll(r.tier, replaced).tier],
                  ok |-> TRUE, back |-> epoch]
    IN  Inserted(TierInsert(3, E.inner, item),
                 IF was_empty THEN E.position.epoch ELSE Increment(E.position.epoch))

\* Faulty variant: the epoch index is incremented also for the first epoch.
InsertEpochOrRoot_always_increments(E, epoch) ==
    LET was_empty == TierIsEmpty(E.inner)
        position == IF epoch.tag = "Hash"
                    THEN [block |-> IndexMAX, commitment |-> IndexMAX]
                    ELSE epoch.val.position
        epoch_index == IF epoch.tag = "Hash" THEN EmptyIndex ELSE epoch.val.index
        item == IF epoch.tag = "Hash" THEN epoch ELSE Keep(epoch.val.inner)
        replaced == {E.index[c] : c \in DOMAIN E.index \cap DOMAIN epoch_index}
        Inserted(r, this_epoch) ==
            IF ~r.ok
            THEN [e |-> [E EXCEPT !.inner = r.tier], ok |-> FALSE,
                  back |-> IF r.item.tag = "Hash" THEN r.item
                           ELSE Keep([position |-> position, index |-> epoch_index,
                                      inner |-> r.item.val])]
            ELSE [e |-> [position |-> [epoch |-> this_epoch,
                                       block |-> position.block,
                                       commitment |-> position.commitment],
                         index |-> [c \in DOMAIN E.index \cup DOMAIN epoch_index |->
                                      IF c \in DOMAIN epoch_index
                                      THEN [epoch |-> this_epoch,
                                            block |-> epoch_index[c].block,
                                            commitment |-> epoch_index[c].commitment]
                                      ELSE E.index[c]],
                         inner |-> ForgetAll(r.tier, replaced).tier],
                  ok |-> TRUE, back |-> epoch]
    IN  Inserted(TierInsert(3, E.inner, item),
                 Increment(E.position.epoch))

\* Faulty variant: the index entries of the new epoch carry the epoch index
\* of before the call.
InsertEpochOrRoot_old_epoch(E, epoch) ==
    LET was_empty == TierIsEmpty(E.inner)
        position == IF epoch.tag = "Hash"
                    THEN [block |-> IndexMAX, commitment |-> IndexMAX]
                    ELSE epoch.val.position
        epoch_index == IF epoch.tag = "Hash" THEN EmptyIndex ELSE epoch.val.index
        item == IF epoch.tag = "Hash" THEN epoch ELSE Keep(epoch.val.inner)
        replaced == {E.index[c] : c \in DOMAIN E.index \cap DOMAIN epoch_index}
        Inserted(r, this_epoch) ==
            IF ~r.ok
            THEN [e |-> [E EXCEPT !.inner = r.tier], ok |-> FALSE,
                  back |-> IF r.item.tag = "Hash" THEN r.item
                           ELSE Keep([position |-> position, index |-> epoch_index,
                                      inner |-> r.item.val])]
            ELSE [e |-> [position |-> [epoch |-> this_epoch,
                                       block |-> position.block,
                                       commitment |-> position.commitment],
                         index |-> [c \in DOMAIN E.index \cup DOMAIN epoch_index |->
                                      IF c \in DOMAIN epoch_index
                                      THEN [epoch |-> E.position.epoch,
                                            block |-> epoch_index[c].block,
                                            commitment |-> epoch_index[c].commitment]
                                      ELSE E.index[c]],
                         inner |-> ForgetAll(r.tier, replaced).tier],
                  ok |-> TRUE, back |-> epoch]
    IN  Inserted(TierInsert(3, E.inner, item),
                 IF was_empty THEN E.position.epoch ELSE Increment(E.position.epoch))

\* Eternity::insert_epoch_or_root: [e, ok, back |-> the input handed back].
InsertEpochOrRoot(E, epoch) ==
    LET was_empty == TierIsEmpty(E.inner)
        position == IF epoch.tag = "Hash"
                    THEN [block |-> IndexMAX, commitment |-> IndexMAX]
                    ELSE epoch.val.position
        epoch_index == IF epoch.tag = "Hash" THEN EmptyIndex ELSE epoch.val.index
        item == IF epoch.tag = "Hash" THEN epoch ELSE Keep(epoch.val.inner)
        replaced == {E.index[c] : c \in DOMAIN E.index \cap DOMAIN epoch_index}
        Inserted(r, this_epoch) ==
            IF ~r.ok
            THEN [e |-> [E EXCEPT !.inner = r.tier], ok |-> FALSE,
                  back |-> IF r.item.tag = "Hash" THEN r.item
                           ELSE Keep([position |-> position, index |-> epoch_index,
                                      inner |-> r.item.val])]
            ELSE [e |-> [position |-> [epoch |-> this_epoch,
                                       block |-> position.block,
                                       commitment |-> position.commitment],
                         index |-> [c \in DOMAIN E.index \cup DOMAIN epoch_index |->
                                      IF c \in DOMAIN epoch_index
                                      THEN [epoch |-> this_epoch,
                                            block |-> epoch_index[c].block,
                                            commitment |-> epoch_index[c].commitment]
                                      ELSE E.index[c]],
                         inner |-> ForgetAll(r.tier, replaced).tier],
                  ok |-> TRUE, back |-> epoch]
    IN  Inserted(TierInsert(3, E.inner, item),
                 IF was_empty THEN E.position.epoch ELSE Increment(E.position.epoch))

\* Faulty variant: the leaf whose index entry the insertion replaces stays witnessed.
InsertCommitmentOrHash_no_forget(E, ins) ==
    LET position == E.position
        Done(e1, err) ==
            [e |-> e1, err |-> err, position |-> position, asserts |-> TRUE]
        Inserted(e0, r) ==
            Done(EternityUpdated(e0, r.m),
                 IF r.err = "Full" THEN "EpochFull" ELSE r.err)
        Focused(e0, m) ==
            IF m = None THEN Done(e0, "EpochForgotten")
            ELSE Inserted(e0, EpochMutInsert(m[1], ins))
        Ensured(e0) ==
            IF ~e0.ok THEN Done(e0.e, "Full")
            ELSE Focused(e0.e, EternityFocus(e0.e))
    IN  Ensured(IF TierIsEmpty(E.inner) THEN InsertEpochOrRoot(E, Keep(EpochNew))
                ELSE [e |-> E, ok |-> TRUE])

\* Eternity::insert_commitment_or_hash: [e, err, position, asserts]; err is
\* "" on success, asserts is FALSE when a debug assertion would fail.
InsertCommitmentOrHash(E, ins) ==
    LET position == E.position
        Done(e1, err) ==
            [e |-> e1, err |-> err, position |-> position, asserts |-> TRUE]
        Forgot(e1, f) ==
            [e |-> [e1 EXCEPT !.inner = f.tier], err |-> "",
             position |-> position, asserts |-> f.forgotten]
        Updated(e1, r) ==
            IF r.err # ""
            THEN Done(e1, IF r.err = "Full" THEN "EpochFull" ELSE r.err)
            ELSE IF r.replaced = None THEN Done(e1, "")
            ELSE Forgot(e1, TierForget(3, e1.inner, PosU64(r.replaced[1])))
        Inserted(e0, r) == Updated(EternityUpdated(e0, r.m), r)
        Focused(e0, m) ==
            IF m = None THEN Done(e0, "EpochForgotten")
            ELSE Inserted(e0, EpochMutInsert(m[1], ins))
        Ensured(e0) ==
            IF ~e0.ok THEN Done(e0.e, "Full")
            ELSE Focused(e0.e, EternityFocus(e0.e))
    IN  Ensured(IF TierIsEmpty(E.inner) THEN InsertEpochOrRoot(E, Keep(EpochNew))
                ELSE [e |-> E, ok |-> TRUE])

\* Eternity::insert.
EternityInsert(E, witness, c) ==
    InsertCommitmentOrHash(E, IF witness = "Keep" THEN Keep(c) ELSE HashIns(HashOf(c)))

\* Eternity::insert_block and Eternity::insert_block_root, by the Insert
\* handed to insert_block_or_root: [e, err, asserts, back |-> the Insert an
\* error carries].
InsertBlockOrRoot(E, block) ==
    LET Done(e1, err, back) ==
            [e |-> e1, err |-> err, asserts |-> TRUE, back |-> back]
        Forgot(e1, f) ==
            [e |-> [e1 EXCEPT !.inner = f.tier], err |-> "", asserts |-> f.forgotten,
             back |-> block]
        Updated(e1, r) ==
            IF ~r.ok THEN Done(e1, "EpochFull", r.back)
            ELSE Forgot(e1, ForgetAll(e1.inner, r.replaced))
        Inserted(e0, r) == Updated(EternityUpdated(e0, r.m), r)
        Focused(e0, m) ==
            IF m = None THEN Done(e0, "EpochForgotten", block)
            ELSE Inserted(e0, EpochMutInsertBlockOrRoot(m[1], block))
        Ensured(e0) ==
            IF ~e0.ok THEN Done(e0.e, "Full", block)
            ELSE Focused(e0.e, EternityFocus(e0.e))
    IN  Ensured(IF TierIsEmpty(E.inner) THEN InsertEpochOrRoot(E, Keep(EpochNew))
                ELSE [e |-> E, ok |-> TRUE])

EternityInsertBlock(E, block) == InsertBlockOrRoot(E, Keep(block))

EternityInsertBlockRoot(E, h) == InsertBlockOrRoot(E, HashIns(h))

EternityInsertEpoch(E, epoch) == InsertEpochOrRoot(E, Keep(epoch))

EternityInsertEpochRoot(E, h) == InsertEpochOrRoot(E, HashIns(h))

\* Eternity::root.
EternityRoot(E) == TierHash(3, E.inner)

\* Faulty variant: the outer `forgotten` is not set, so false is returned.
EternityForget_shadowed(E, c) ==
    IF c \in DOMAIN E.index
    THEN LET Forgot(f) ==
                 [e |-> [E EXCEPT !.inner = f.tier, !.index = IndexRemove(E.index, c)],
                  forgotten |-> FALSE, asserts |-> f.forgotten]
         IN  Forgot(TierForget(3, E.inner, PosU64(E.index[c])))
    ELSE [e |-> E, forgotten |-> FALSE, asserts |-> TRUE]

\* Faulty variant: the entry is not removed from the index.
EternityForget_keeps_entry(E, c) ==
    IF c \in DOMAIN E.index
    THEN LET Forgot(f) ==
                 [e |-> [E EXCEPT !.inner = f.tier],
                  forgotten |-> TRUE, asserts |-> f.forgotten]
         IN  Forgot(TierForget(3, E.inner, PosU64(E.index[c])))
    ELSE [e |-> E, forgotten |-> FALSE, asserts |-> TRUE]

\* Eternity::forget: [e, forgotten, asserts].
EternityForget(E, c) ==
    IF c \in DOMAIN E.index
    THEN LET Forgot(f) ==
                 [e |-> [E EXCEPT !.inner = f.tier, !.index = IndexRemove(E.index, c)],
                  forgotten |-> TRUE, asserts |-> f.forgotten]
         IN  Forgot(TierForget(3, E.inner, PosU64(E.index[c])))
    ELSE [e |-> E, forgotten |-> FALSE, asserts |-> TRUE]

\* Eternity::witness: [tag |-> "None"], [tag |-> "Some", proof, leaf_hash]
\* with the leaf hash the tree returned, or [tag |-> "Panic"] when the
\* indexed position is not witnessed in the tree.
EternityWitness(E, c) ==
    IF c \notin DOMAIN E.index THEN [tag |-> "None"]
    ELSE LET Witnessed(w) ==
                 IF w = None THEN [tag |-> "Panic"]
                 ELSE [tag |-> "Some",
                       proof |-> [position |-> E.index[c], auth_path |-> w[1].path,
                                  leaf |-> c],
                       leaf_hash |-> w[1].leaf]
         IN  Witnessed(TierWitness(3, E.inner, PosU64(E.index[c])))

\* The effect of Eternity::witness on the hash caches.
EternityWitnessFill(E, c) ==
    IF c \notin DOMAIN E.index THEN E
    ELSE [E EXCEPT !.inner = TierWitnessFill(3, E.inner, PosU64(E.index[c]))]

\* The effect of Eternity::root on the hash caches.
EternityRootFill(E) == [E EXCEPT !.inner = TierFill(3, E.inner)]

\* Insert::hash of an item of a tier at level t > 1: the hash itself or the
\* hash of the tier kept.
InsertHash(t, ins) ==
    IF ins.tag = "Hash" THEN ins.val ELSE TierHash(t - 1, ins.val)

\* Eternity::current_epoch_root.
EternityCurrentEpochRoot(E) ==
    LET Of(f) == IF f = None THEN None ELSE Some(InsertHash(3, f[1]))
    IN  Of(TierFocus(E.inner))

\* Eternity::current_block_root.
EternityCurrentBlockRoot(E) ==
    LET Block(f) == IF f = None THEN None ELSE Some(InsertHash(2, f[1]))
        Epoch(f) == IF f = None \/ f[1].tag # "Keep" THEN None
                    ELSE Block(TierFocus(f[1].val))
    IN  Epoch(TierFocus(E.inner))

EternityWitnessedCount(E) == Cardinality(DOMAIN E.index)

RECURSIVE FoldPath(_, _, _, _)
\* The verifier's fold: from the hash of the node at `height` on the path to
\* `index`, up to the root of a tree of 3 * TierDepth levels.
FoldPath(height, cur, index, path) ==
    IF height = 3 * TierDepth THEN cur
    ELSE LET sib == path[3 * TierDepth - height]
             w == WhichWayAt(height + 1, index)
             child(i) == IF i < w THEN sib[i + 1] ELSE IF i = w THEN cur ELSE sib[i]
         IN  FoldPath(height + 1,
                      HashNode(height + 1, child(0), child(1), child(2), child(3)),
                      index, path)

\* Proof::verify against a root.
ProofVerify(proof, root) ==
    /\ Len(proof.auth_path) = 3 * TierDepth
    /\ FoldPath(0, HashOf(proof.leaf), PosU64(proof.position), proof.auth_path) = root

-----------------------------------------------------------------------------
(* the environment's inputs *)

\* A block is described by the insertions that build it, an epoch by the
\* blocks and block roots inserted into it. Each step is evaluated before
\* the next one starts.
RECURSIVE RunInserts(_, _, _)
RunInserts(E, items, i) ==
    IF i > Len(items) THEN E
    ELSE CHOOSE done \in
            {RunInserts(e, items, i + 1) :
                e \in {EternityInsert(E, items[i].w, items[i].c).e}} : TRUE

\* The Block built by Block::insert of the items in order.
BlockOf(items) ==
    IF items = <<>> THEN BlockNew
    ELSE LET Block(E, epoch) ==
                 [position |-> E.position.commitment,
                  index |-> [c \in DOMAIN E.index |-> E.index[c].commitment],
                  inner |-> TierFocus(epoch)[1].val]
             Built(E) == Block(E, TierFocus(E.inner)[1].val)
         IN  Built(RunInserts(EternityNew, items, 1))

RECURSIVE RunBlocks(_, _, _)
RunBlocks(E, blocks, i) ==
    IF i > Len(blocks) THEN E
    ELSE CHOOSE done \in
            {RunBlocks(e, blocks, i + 1) :
                e \in {IF blocks[i].kind = "root"
                       THEN EternityInsertBlockRoot(E, blocks[i].root).e
                       ELSE EternityInsertBlock(E, BlockOf(blocks[i].items)).e}} : TRUE

\* The Epoch built by Epoch::insert_block / insert_block_root in order.
EpochOf(blocks) ==
    IF blocks = <<>> THEN EpochNew
    ELSE LET Built(E) ==
                 [position |-> [block |-> E.position.block,
                                commitment |-> E.position.commitment],
                  index |-> [c \in DOMAIN E.index |->
                               [block |-> E.index[c].block,
                                commitment |-> E.index[c].commitment]],
                  inner |-> TierFocus(E.inner)[1].val]
         IN  Built(RunBlocks(EternityNew, blocks, 1))

\* The same insertions, none of them witnessed.
Forgetful(items) == [i \in 1..Len(items) |-> [w |-> "Forget", c |-> items[i].c]]

\* The blocks to insert: none, a block one insertion short of full that
\* witnesses commitments 2 .. Cap, and a block of a forgotten and a witnessed
\* commitment.
BlockScripts ==
    {<<>>,
     [i \in 1..(Cap - 1) |-> [w |-> "Keep", c |-> i + 1]],
     <<[w |-> "Forget", c |-> 1], [w |-> "Keep", c |-> 2]>>}

BlockRoots == {TierHash(1, BlockOf(<<[w |-> "Forget", c |-> 1]>>).inner)}

\* The epochs to insert: none, an epoch of one block witnessing commitment
\* 1, and an epoch one block short of full: that block, then block roots.
EpochScripts ==
    {<<>>,
     <<[kind |-> "block", items |-> <<[w |-> "Keep", c |-> 1]>>]>>,
     [i \in 1..(Cap - 1) |->
        IF i = 1 THEN [kind |-> "block", items |-> <<[w |-> "Keep", c |-> 1]>>]
        ELSE [kind |-> "root",
              root |-> TierHash(1, BlockOf(<<[w |-> "Forget", c |-> 1]>>).inner)]]}

EpochRoots ==
    {TierHash(2, EpochOf(<<[kind |-> "block",
                            items |-> <<[w |-> "Forget", c |-> 2]>>]>>).inner)}

-----------------------------------------------------------------------------
(* the state machine: one Eternity and the operations of its facade; the
   other programs of the repository have a state machine each, further
   down, and stand still here *)

VARIABLES
    eternity,   \* the Eternity
    twin,       \* an Eternity given the same insertions, none witnessed
    last,       \* the last operation, its arguments and what it returned:
                \* err "" for Ok, pos the returned position, flag the
                \* returned bool, wit the returned proof, indexed whether c
                \* was in the index before the call, asserts whether every
                \* debug assertion on the way held
    recent,     \* how the most recent epoch, and the most recent block of
                \* that epoch, came in: "none", "keep" (as a tree, also the
                \* ones insert creates) or "root" (as a bare root hash);
                \* epochs counts the epochs inserted so far, kept tells
                \* whether a commitment went into the most recent block
                \* with Witness::Keep
    nops,       \* operations performed
    worker,     \* the consensus worker, its queue and its application
    rates,      \* the arguments and the result of the rate computations
    epoch_proof     \* the arguments of Proof::new and what the proof gives back

vars == <<eternity, twin, last, recent, nops, worker, rates, epoch_proof>>

NoOp == [op |-> "new", c |-> 0, w |-> "", err |-> "",
         pos |-> [epoch |-> 0, block |-> 0, commitment |-> 0],
         flag |-> FALSE, indexed |-> FALSE, wit |-> [tag |-> "None"],
         asserts |-> TRUE]

\* The tree after Eternity::new, before any operation.
TreeAtRest ==
    /\ eternity = EternityNew
    /\ twin = EternityNew
    /\ last = NoOp
    /\ recent = [epoch |-> "none", block |-> "none", epochs |-> 0, kept |-> FALSE]
    /\ nops = 0

Init ==
    /\ TreeAtRest
    /\ worker = None
    /\ rates = None
    /\ epoch_proof = None

\* `recent` after a successful insertion of a commitment or of a block that
\* came in as `kind`; an empty eternity gets a new epoch, an empty epoch gets
\* a new block for a commitment.
RecentAfter(E, ok, kind, keeps) ==
    [epoch |-> IF TierIsEmpty(E.inner) THEN "keep" ELSE recent.epoch,
     epochs |-> IF TierIsEmpty(E.inner) THEN 1 ELSE recent.epochs,
     block |-> IF ~ok THEN recent.block
               ELSE IF kind # "item" THEN kind
               ELSE IF recent.block = "none" THEN "keep" ELSE recent.block,
     kept |-> IF ~ok THEN recent.kept
              ELSE IF kind # "item" \/ recent.block = "none" THEN keeps
              ELSE recent.kept \/ keeps]

\* Whether a block built from `items` took a commitment with Witness::Keep.
KeepsAny(items) == \E i \in 1..Len(items) : items[i].w = "Keep"

\* How the last block of an epoch built from `blocks` came in.
LastBlockKind(blocks) ==
    IF blocks = <<>> THEN "none"
    ELSE IF blocks[Len(blocks)].kind = "root" THEN "root" ELSE "keep"

Insert(w, c) ==
    /\ nops < MaxOps
    /\ \E r \in {EternityInsert(eternity, w, c)} :
          /\ eternity' = r.e
          /\ last' = [NoOp EXCEPT !.op = "insert", !.c = c, !.w = w, !.err = r.err,
                                  !.pos = r.position, !.asserts = r.asserts,
                                  !.indexed = c \in DOMAIN eternity.index]
          /\ recent' = RecentAfter(eternity, r.err = "", "item", w = "Keep")
    /\ twin' = EternityInsert(twin, "Forget", c).e
    /\ nops' = nops + 1
    /\ UNCHANGED <<worker, rates, epoch_proof>>

InsertBlock(items) ==
    /\ nops < MaxOps
    /\ \E r \in {EternityInsertBlock(eternity, BlockOf(items))} :
          /\ eternity' = r.e
          /\ last' = [NoOp EXCEPT !.op = "insert_block", !.err = r.err,
                                  !.asserts = r.asserts]
          /\ recent' = RecentAfter(eternity, r.err = "", "keep", KeepsAny(items))
    /\ twin' = EternityInsertBlock(twin, BlockOf(Forgetful(items))).e
    /\ nops' = nops + 1
    /\ UNCHANGED <<worker, rates, epoch_proof>>

InsertBlockRoot(h) ==
    /\ nops < MaxOps
    /\ \E r \in {EternityInsertBlockRoot(eternity, h)} :
          /\ eternity' = r.e
          /\ last' = [NoOp EXCEPT !.op = "insert_block_root", !.err = r.err,
                                  !.asserts = r.asserts]
          /\ recent' = RecentAfter(eternity, r.err = "", "root", FALSE)
    /\ twin' = EternityInsertBlockRoot(twin, h).e
    /\ nops' = nops + 1
    /\ UNCHANGED <<worker, rates, epoch_proof>>

InsertEpoch(blocks) ==
    /\ nops < MaxOps
    /\ \E r \in {EternityInsertEpoch(eternity, EpochOf(blocks))} :
          /\ eternity' = r.e
          /\ last' = [NoOp EXCEPT !.op = "insert_epoch",
                                  !.err = IF r.ok THEN "" ELSE "Full"]
          /\ recent' = IF ~r.ok THEN recent
                       ELSE [epoch |-> "keep", block |-> LastBlockKind(blocks),
                             epochs |-> recent.epochs + 1,
                             kept |-> LastBlockKind(blocks) = "keep" /\
                                      KeepsAny(blocks[Len(blocks)].items)]
    /\ twin' = EternityInsertEpoch(twin,
                EpochOf([i \in 1..Len(blocks) |->
                            IF blocks[i].kind = "root" THEN blocks[i]
                            ELSE [kind |-> "block",
                                  items |-> Forgetful(blocks[i].items)]])).e
    /\ nops' = nops + 1
    /\ UNCHANGED <<worker, rates, epoch_proof>>

InsertEpochRoot(h) ==
    /\ nops < MaxOps
    /\ \E r \in {EternityInsertEpochRoot(eternity, h)} :
          /\ eternity' = r.e
          /\ last' = [NoOp EXCEPT !.op = "insert_epoch_root",
                                  !.err = IF r.ok THEN "" ELSE "Full"]
          /\ recent' = IF ~r.ok THEN recent
                       ELSE [epoch |-> "root", block |-> "none",
                             epochs |-> recent.epochs + 1, kept |-> FALSE]
    /\ twin' = EternityInsertEpochRoot(twin, h).e
    /\ nops' = nops + 1
    /\ UNCHANGED <<worker, rates, epoch_proof>>

Forget(c) ==
    /\ nops < MaxOps
    /\ \E r \in {EternityForget(eternity, c)} :
          /\ eternity' = r.e
          /\ last' = [NoOp EXCEPT !.op = "forget", !.c = c, !.flag = r.forgotten,
                                  !.asserts = r.asserts,
                                  !.indexed = c \in DOMAIN eternity.index]
    /\ nops' = nops + 1
    /\ UNCHANGED <<worker, rates, epoch_proof>>
    /\ UNCHANGED <<twin, recent>>

Witness(c) ==
    /\ nops < MaxOps
    /\ \E r \in {EternityWitness(eternity, c)} :
          last' = [NoOp EXCEPT !.op = "witness", !.c = c, !.wit = r,
                               !.indexed = c \in DOMAIN eternity.index,
                               !.asserts = (r.tag = "Some" => r.leaf_hash = HashOf(c))]
    /\ eternity' = EternityWitnessFill(eternity, c)
    /\ nops' = nops + 1
    /\ UNCHANGED <<worker, rates, epoch_proof>>
    /\ UNCHANGED <<twin, recent>>

Root ==
    /\ nops < MaxOps
    /\ eternity' = EternityRootFill(eternity)
    /\ last' = [NoOp EXCEPT !.op = "root"]
    /\ nops' = nops + 1
    /\ UNCHANGED <<worker, rates, epoch_proof>>
    /\ UNCHANGED <<twin, recent>>

Next ==
    \/ \E w \in {"Keep", "Forget"}, c \in Commitments : Insert(w, c)
    \/ \E items \in BlockScripts : InsertBlock(items)
    \/ \E h \in BlockRoots : InsertBlockRoot(h)
    \/ \E blocks \in EpochScripts : InsertEpoch(blocks)
    \/ \E h \in EpochRoots : InsertEpochRoot(h)
    \/ \E c \in Commitments : Forget(c)
    \/ \E c \in Commitments : Witness(c)
    \/ Root

Spec == Init /\ [][Next]_vars

-----------------------------------------------------------------------------
(* observations used by the properties *)

RECURSIVE CompleteKept(_, _, _, _)
RECURSIVE TierKept(_, _, _)
RECURSIVE ActiveKept(_, _, _, _)

\* The witnessed leaves beneath a complete subtree whose leftmost leaf has
\* index `base`: pairs <<index, commitment>>.
CompleteKept(t, k, x, base) ==
    IF k = 0
    THEN IF t = 1 THEN {<<base, x>>} ELSE CompleteKept(t - 1, TierDepth, x, base)
    ELSE UNION {IF x.children[i].tag = "Hash" THEN {}
                ELSE CompleteKept(t, k - 1, x.children[i].val,
                                  base + (i - 1) * Pow4(HeightOf(t, k) - 1))
                : i \in 1..4}

TierKept(t, tier, base) ==
    IF tier.inner.st = "Active"
    THEN IF tier.inner.val = None THEN {}
         ELSE ActiveKept(t, TierDepth, tier.inner.val[1], base)
    ELSE IF tier.inner.st = "Complete"
    THEN CompleteKept(t, TierDepth, tier.inner.val, base)
    ELSE {}

ActiveKept(t, k, a, base) ==
    IF k = 0
    THEN IF a.item.tag = "Hash" THEN {}
         ELSE IF t = 1 THEN {<<base, a.item.val>>}
         ELSE TierKept(t - 1, a.item.val, base)
    ELSE LET step == Pow4(HeightOf(t, k) - 1)
         IN  UNION {IF a.siblings[i].tag = "Hash" THEN {}
                    ELSE CompleteKept(t, k - 1, a.siblings[i].val, base + (i - 1) * step)
                    : i \in 1..Len(a.siblings)}
             \cup ActiveKept(t, k - 1, a.focus, base + Len(a.siblings) * step)

\* The Keep leaves of an eternity's tree.
KeptLeaves(E) == TierKept(3, E.inner, 0)

-----------------------------------------------------------------------------
(* properties *)

\* C1: forget(c), for a witnessed or an unwitnessed c, leaves root() as it was.
C1_RootStableForget ==
    [][last'.op = "forget" => EternityRoot(eternity') = EternityRoot(eternity)]_vars

\* C1 witness: a forget that removed a witness from a block already frozen.
C1_Witness ==
    /\ last.op = "forget" /\ last.flag
    /\ eternity.position.block >= 1
    /\ KeptLeaves(eternity) = {}

\* C2: every indexed commitment has a proof with that leaf and position, and
\* folding its sibling hashes upward from Hash::of(c) gives root().
C2_WitnessSound ==
    \A c \in DOMAIN eternity.index :
        LET w == EternityWitness(eternity, c)
        IN  /\ w.tag = "Some"
            /\ w.proof.leaf = c
            /\ w.leaf_hash = HashOf(c)
            /\ w.proof.position = eternity.index[c]
            /\ ProofVerify(w.proof, EternityRoot(eternity))

\* C2 witness: two witnessed commitments in different blocks.
C2_Witness ==
    \E c, d \in DOMAIN eternity.index :
        eternity.index[c].block # eternity.index[d].block

\* C3: the index and the Keep leaves of the tree are the same relation, the
\* panic of witness is not reached and no debug assertion fails.
C3_IndexTreeConsistent ==
    /\ KeptLeaves(eternity) =
          {<<PosU64(eternity.index[c]), c>> : c \in DOMAIN eternity.index}
    /\ \A c \in Commitments : EternityWitness(eternity, c).tag # "Panic"
    /\ last.wit.tag # "Panic"
    /\ last.asserts

\* C3 witness: an insertion replaced an index entry and forgot the old leaf.
C3_Witness ==
    /\ last.op = "insert" /\ last.err = "" /\ last.w = "Keep" /\ last.indexed
    /\ Cardinality(DOMAIN eternity.index) >= 2

C7_DuplicateInsert ==
    [][last'.op = "insert" /\ last'.err = "" /\ last'.w = "Keep"
       /\ last'.c \in DOMAIN eternity.index
        => LET c == last'.c
               w == EternityWitness(eternity', c)
           IN  /\ c \in DOMAIN eternity'.index
               /\ eternity'.index[c] = last'.pos
               /\ eternity'.index[c] = eternity.position
               /\ eternity.index[c] # eternity'.index[c]
               /\ \A l \in KeptLeaves(eternity') : l[1] # PosU64(eternity.index[c])
               /\ EternityWitnessedCount(eternity') = EternityWitnessedCount(eternity)
               /\ w.tag = "Some"
               /\ w.proof.position = eternity'.index[c]
               /\ ProofVerify(w.proof, EternityRoot(eternity'))]_vars

\* C7 witness: a commitment witnessed in an earlier block was inserted again.
C7_Witness ==
    /\ last.op = "insert" /\ last.err = "" /\ last.w = "Keep" /\ last.indexed
    /\ last.pos.block >= 1

\* C8: forget(c) returns true exactly when c was indexed; afterwards c is not
\* indexed, and forgetting it again returns false and changes nothing.
C8_ForgetIdempotent ==
    last.op = "forget"
        => /\ last.flag = last.indexed
           /\ last.c \notin DOMAIN eternity.index
           /\ EternityForget(eternity, last.c).forgotten = FALSE
           /\ EternityForget(eternity, last.c).e = eternity

\* C8 witness: a forget that returned true.
C8_Witness == last.op = "forget" /\ last.flag /\ eternity.index # EmptyIndex

\* C9: witness(c) is None exactly for the commitments that are not indexed
\* (so after forget(c), and after inserting c with Forget only) and never
\* panics.
C9_WitnessNoneIffUnindexed ==
    /\ \A c \in Commitments :
          /\ EternityWitness(eternity, c).tag # "Panic"
          /\ EternityWitness(eternity, c).tag = "None" <=> c \notin DOMAIN eternity.index
          /\ c \notin DOMAIN eternity.index => \A l \in KeptLeaves(eternity) : l[2] # c
    /\ last.op = "forget" => EternityWitness(eternity, last.c).tag = "None"
    /\ last.op = "insert" /\ last.w = "Forget" /\ ~last.indexed
          => EternityWitness(eternity, last.c).tag = "None"
    /\ last.op = "witness"
          => last.wit.tag # "Panic" /\ (last.wit.tag = "None" <=> ~last.indexed)

\* C9 witness: witness(c) was asked for a commitment that is in the tree only
\* as a hash, next to a witnessed one.
C9_Witness ==
    /\ last.op = "witness" /\ last.wit.tag = "None"
    /\ eternity.index # EmptyIndex
    /\ eternity.position.commitment >= 2

\* C10: the root is that of the eternity built by the same insertions with
\* nothing witnessed, whatever was kept and whatever was forgotten since.
C10_RootIgnoresWitnessMode == EternityRoot(eternity) = EternityRoot(twin)

\* C10 witness: an eternity with witnesses left after a forget, two blocks in.
C10_Witness ==
    /\ last.op = "forget" /\ last.flag
    /\ eternity.index # EmptyIndex
    /\ eternity.position.block >= 1

\* The Inserts the environment hands to insert_epoch / insert_epoch_root and
\* to insert_block / insert_block_root.
EpochInputs ==
    {Keep(EpochOf(s)) : s \in EpochScripts} \cup {HashIns(h) : h \in EpochRoots}

BlockInputs ==
    {Keep(BlockOf(s)) : s \in BlockScripts} \cup {HashIns(h) : h \in BlockRoots}

ItemInputs == {Keep(c) : c \in Commitments} \cup {HashIns(HashOf(c)) : c \in Commitments}

\* The epoch tier and the block tier that the next insertion would go into.
FocusedEpoch(E) ==
    LET f == TierFocus(E.inner)
    IN  IF f # None /\ f[1].tag = "Keep" THEN Some(f[1].val) ELSE None

FocusedBlock(E) ==
    LET e == FocusedEpoch(E)
        f == IF e = None THEN None ELSE TierFocus(e[1])
    IN  IF f # None /\ f[1].tag = "Keep" THEN Some(f[1].val) ELSE None

\* C11: a failing Tier::insert hands back the item it was given, a failing
\* insert_block / insert_block_root the block (or root) it was given, a
\* failing insert_epoch / insert_epoch_root the epoch it was given, in the
\* same variant, so no unreachable!() branch is taken.
C11_FailureReturnsInput ==
    /\ \A x \in EpochInputs :
          LET r == InsertEpochOrRoot(eternity, x)
              item == IF x.tag = "Hash" THEN x ELSE Keep(x.val.inner)
              t == TierInsert(3, eternity.inner, item)
          IN  /\ ~r.ok => r.back = x
              /\ ~t.ok => t.item = item
    /\ \A x \in BlockInputs :
          LET r == InsertBlockOrRoot(eternity, x)
              item == IF x.tag = "Hash" THEN x ELSE Keep(x.val.inner)
          IN  /\ r.err # "" => r.back = x
              /\ FocusedEpoch(eternity) # None =>
                    LET t == TierInsert(2, FocusedEpoch(eternity)[1], item)
                    IN  ~t.ok => t.item = item
    /\ \A x \in ItemInputs :
          FocusedBlock(eternity) # None =>
              LET t == TierInsert(1, FocusedBlock(eternity)[1], x)
              IN  ~t.ok => t.item = x

\* C11 witness: an insert_block was refused by a full epoch and left behind
\* an eternity that refuses every further block.
C11_Witness ==
    /\ last.op = "insert_block" /\ last.err = "EpochFull"
    /\ \A x \in BlockInputs : InsertBlockOrRoot(eternity, x).err # ""

\* C12: insert fails with EpochForgotten only when the most recent epoch came
\* in as a bare root, and with BlockForgotten only when the most recent block
\* came in as a bare root; directly after a successful insert_epoch_root
\* every insert, insert_block and insert_block_root fails with
\* EpochForgotten, and directly after a successful insert_block_root every
\* insert fails with BlockForgotten.
C12_ForgottenOnlyAfterRoot ==
    /\ \A x \in ItemInputs :
          LET r == InsertCommitmentOrHash(eternity, x)
          IN  /\ r.err = "EpochForgotten" => recent.epoch = "root"
              /\ r.err = "BlockForgotten" => recent.block = "root"
    /\ (last.op = "insert_epoch_root" /\ last.err = "") =>
          /\ \A x \in ItemInputs :
                InsertCommitmentOrHash(eternity, x).err = "EpochForgotten"
          /\ \A x \in BlockInputs :
                InsertBlockOrRoot(eternity, x).err = "EpochForgotten"
    /\ (last.op = "insert_block_root" /\ last.err = "") =>
          \A x \in ItemInputs :
              InsertCommitmentOrHash(eternity, x).err = "BlockForgotten"

RECURSIVE ActiveSlots(_, _)
\* The slots taken beneath an active node of height k: every sibling is a
\* full subtree, the focus holds the rest.
ActiveSlots(k, a) ==
    IF k = 0 THEN 1
    ELSE Len(a.siblings) * Pow4(k - 1) + ActiveSlots(k - 1, a.focus)

\* The insertions a tier has taken; a Complete or Hash tier took them all.
TierSlots(tier) ==
    IF tier.inner.st # "Active" THEN Cap
    ELSE IF tier.inner.val = None THEN 0
    ELSE ActiveSlots(TierDepth, tier.inner.val[1])

RECURSIVE TierAfter(_)
\* A block-level tier after n attempts to insert a commitment, from empty.
TierAfter(n) ==
    IF n = 0 THEN TierNew ELSE TierInsert(1, TierAfter(n - 1), Keep(1)).tier

\* C14: from an empty tier exactly the first Cap insertions succeed and the
\* later ones fail; insert_epoch and insert_epoch_root fail exactly when Cap
\* epochs have been inserted.
C14_Capacity ==
    /\ \A n \in 0..(Cap + 2) :
          TierInsert(1, TierAfter(n), Keep(1)).ok <=> n < Cap
    /\ \A x \in EpochInputs :
          InsertEpochOrRoot(eternity, x).ok <=> recent.epochs < Cap
    /\ last.op \in {"insert_epoch", "insert_epoch_root"} =>
          (last.err = "Full" <=> recent.epochs = Cap /\ TierSlots(eternity.inner) = Cap
                                 /\ eternity.inner.inner.st # "Active")

\* C14 witness: an epoch was refused by an eternity holding Cap epochs.
C14_Witness ==
    /\ last.op \in {"insert_epoch", "insert_epoch_root"}
    /\ last.err = "Full"
    /\ recent.epochs = Cap

\* C15: an empty Eternity, fresh or after root(), witness() and forget() on
\* it, has position() = 0, witness(c) = None for every commitment c and
\* root() = Hash::default().
C15_EmptyTree ==
    TierIsEmpty(eternity.inner) =>
        /\ PosU64(eternity.position) = 0
        /\ \A c \in Commitments : EternityWitness(eternity, c).tag = "None"
        /\ EternityRoot(eternity) = HashDefault
        /\ EternityRoot(EternityRootFill(eternity)) = HashDefault

\* C15 witness: root() was read on the empty Eternity.
C15_Witness == TierIsEmpty(eternity.inner) /\ last.op = "root"

\* C15 as stated: the root of the empty Eternity is the hash of a node of
\* the full height over four empty children.
C15_EmptyRootIsNode ==
    TierIsEmpty(eternity.inner) =>
        /\ PosU64(eternity.position) = 0
        /\ \A c \in Commitments : EternityWitness(eternity, c).tag = "None"
        /\ EternityRoot(eternity) =
              HashNode(HeightOf(3, TierDepth),
                       HashDefault, HashDefault, HashDefault, HashDefault)

RECURSIVE CompleteLast(_, _, _)
\* The hash of the last item beneath a complete node of a tier at level
\* t > 1, None where only the hash of a whole subtree is left of it.
CompleteLast(t, k, x) ==
    IF k = 0 THEN Some(CompleteHash(t, 0, x))
    ELSE IF x.children[4].tag = "Keep" THEN CompleteLast(t, k - 1, x.children[4].val)
    ELSE IF k = 1 THEN Some(x.children[4].val)
    ELSE None

\* The hash of the item a tier at level t > 1 took last, where the tier
\* still shows it.
TierLast(t, tier) ==
    IF tier.inner.st = "Active"
    THEN IF tier.inner.val = None THEN None
         ELSE Some(InsertHash(t, ActiveFocus(TierDepth, tier.inner.val[1])))
    ELSE IF tier.inner.st = "Complete" THEN CompleteLast(t, TierDepth, tier.inner.val)
    ELSE None

\* C16: current_epoch_root() is None exactly when no epoch has been inserted,
\* and otherwise the root hash of the epoch inserted last, also after an
\* epoch was refused by a full eternity.
C16_CurrentEpochRoot ==
    /\ EternityCurrentEpochRoot(eternity) = None <=> recent.epochs = 0
    /\ TierLast(3, eternity.inner) # None =>
          EternityCurrentEpochRoot(eternity) = TierLast(3, eternity.inner)

\* C17: current_block_root() is None exactly when no epoch has been inserted
\* or the epoch inserted last came in through insert_epoch_root, and
\* otherwise the root hash of the last block of the last epoch.
C17_CurrentBlockRoot ==
    /\ EternityCurrentBlockRoot(eternity) = None <=>
          (recent.epochs = 0 \/ recent.epoch = "root")
    /\ (FocusedEpoch(eternity) # None /\ TierLast(2, FocusedEpoch(eternity)[1]) # None) =>
          EternityCurrentBlockRoot(eternity) = TierLast(2, FocusedEpoch(eternity)[1])

\* C18: forget leaves position() as it was; witnessed_count() goes down by
\* one when forget returns true and stays when it returns false.
C18_ForgetFrame ==
    [][last'.op = "forget" =>
          /\ eternity'.position = eternity.position
          /\ EternityWitnessedCount(eternity') =
                EternityWitnessedCount(eternity) - (IF last'.flag THEN 1 ELSE 0)]_vars

\* C18 witness: a forget returned true with another commitment still
\* witnessed and the position past the first slot.
C18_Witness ==
    /\ last.op = "forget" /\ last.flag
    /\ EternityWitnessedCount(eternity) > 0
    /\ PosU64(eternity.position) > 0

RECURSIVE CompleteNodes(_, _, _)
RECURSIVE TierNodes(_, _)
RECURSIVE ActiveNodes(_, _, _)

\* The complete nodes of a complete subtree, each as <<t, k, node>>: the
\* level of its tier, its height in the tier, and the node.
CompleteNodes(t, k, x) ==
    IF k = 0
    THEN IF t = 1 THEN {} ELSE CompleteNodes(t - 1, TierDepth, x)
    ELSE {<<t, k, x>>} \cup
         UNION {IF x.children[i].tag = "Hash" THEN {}
                ELSE CompleteNodes(t, k - 1, x.children[i].val) : i \in 1..4}

TierNodes(t, tier) ==
    IF tier.inner.st = "Active"
    THEN IF tier.inner.val = None THEN {}
         ELSE ActiveNodes(t, TierDepth, tier.inner.val[1])
    ELSE IF tier.inner.st = "Complete"
    THEN CompleteNodes(t, TierDepth, tier.inner.val)
    ELSE {}

ActiveNodes(t, k, a) ==
    IF k = 0
    THEN IF a.item.tag = "Hash" \/ t = 1 THEN {}
         ELSE TierNodes(t - 1, a.item.val)
    ELSE UNION {IF a.siblings[i].tag = "Hash" THEN {}
                ELSE CompleteNodes(t, k - 1, a.siblings[i].val)
                : i \in 1..Len(a.siblings)}
         \cup ActiveNodes(t, k - 1, a.focus)

\* The complete nodes of an eternity's tree.
TreeNodes(E) == TierNodes(3, E.inner)

RECURSIVE CompleteRehash(_, _, _)
\* The hash of a complete subtree computed from its children, no cache read.
CompleteRehash(t, k, x) ==
    IF k = 0
    THEN IF t = 1 THEN HashOf(x) ELSE CompleteRehash(t - 1, TierDepth, x)
    ELSE LET h(i) == IF x.children[i].tag = "Hash" THEN x.children[i].val
                     ELSE CompleteRehash(t, k - 1, x.children[i].val)
         IN  HashNode(HeightOf(t, k), h(1), h(2), h(3), h(4))

\* C19: no complete node of the tree has four hash children, and every
\* complete node has a witnessed leaf beneath it.
C19_CollapseComplete ==
    \A n \in TreeNodes(eternity) :
        /\ \E i \in 1..4 : n[3].children[i].tag = "Keep"
        /\ CompleteKept(n[1], n[2], n[3], 0) # {}

\* C19 witness: a forget took a leaf away beneath a complete node that stays
\* in the tree with another leaf.
C19_Witness ==
    /\ last.op = "forget" /\ last.flag
    /\ \E n \in TreeNodes(eternity) :
          \E i \in 1..4 : n[3].children[i] = HashIns(HashOf(last.c))

\* C20: every complete node with a cached hash holds the hash computed from
\* its children as they are now.
C20_CacheCorrect ==
    \A n \in TreeNodes(eternity) :
        n[3].hash # NoHash => n[3].hash[1] = CompleteRehash(n[1], n[2], n[3])

\* C20 witness: a forget rebuilt a complete node whose hash was cached; the
\* node carries the cache above the forgotten leaf.
C20_Witness ==
    /\ last.op = "forget" /\ last.flag
    /\ \E n \in TreeNodes(eternity) :
          /\ n[3].hash # NoHash
          /\ \E i \in 1..4 : n[3].children[i] = HashIns(HashOf(last.c))

RECURSIVE CompleteStrip(_, _, _)
\* A complete subtree with every hash cache emptied: what the derived
\* equality of complete::Node looks at (the hash field is ignored).
CompleteStrip(t, k, x) ==
    IF k = 0
    THEN IF t = 1 THEN x ELSE CompleteStrip(t - 1, TierDepth, x)
    ELSE [hash |-> NoHash,
          children |-> [i \in 1..4 |->
                          IF x.children[i].tag = "Hash" THEN x.children[i]
                          ELSE Keep(CompleteStrip(t, k - 1, x.children[i].val))]]

\* Equality of two complete subtrees, and of two Insert<complete subtree>.
CompleteEq(t, k, x, y) == CompleteStrip(t, k, x) = CompleteStrip(t, k, y)

CompleteInsertEq(t, k, a, b) ==
    /\ a.tag = b.tag
    /\ IF a.tag = "Hash" THEN a.val = b.val ELSE CompleteEq(t, k, a.val, b.val)

RECURSIVE ActiveEqInsert(_, _, _, _)
RECURSIVE TierEqComplete(_, _, _)

\* Equality of an active subtree of height k with an Insert<complete
\* subtree>, level by level: the siblings against the first children, the
\* focus against the next one, hashes of nothing in the rest; a bare hash
\* equals an active subtree that witnesses nothing and has that hash.
ActiveEqInsert(t, k, a, ins) ==
    IF k = 0
    THEN IF a.item.tag = "Hash" THEN ins = a.item
         ELSE IF t = 1 THEN ins = a.item
         ELSE IF ins.tag = "Keep" THEN TierEqComplete(t - 1, a.item.val, ins.val)
         ELSE /\ TierKept(t - 1, a.item.val, 0) = {}
              /\ TierHash(t - 1, a.item.val) = ins.val
    ELSE IF ins.tag = "Hash"
    THEN ActiveKept(t, k, a, 0) = {} /\ ActiveHash(t, k, a) = ins.val
    ELSE /\ \A i \in 1..Len(a.siblings) :
              CompleteInsertEq(t, k - 1, a.siblings[i], ins.val.children[i])
         /\ ActiveEqInsert(t, k - 1, a.focus, ins.val.children[Len(a.siblings) + 1])
         /\ \A i \in (Len(a.siblings) + 2)..4 : ins.val.children[i] = Zero

\* PartialEq<complete::Tier> for Tier.
TierEqComplete(t, tier, x) ==
    IF tier.inner.st = "Hash" THEN FALSE
    ELSE IF tier.inner.st = "Active"
    THEN IF tier.inner.val = None THEN FALSE
         ELSE ActiveEqInsert(t, TierDepth, tier.inner.val[1], Keep(x))
    ELSE CompleteEq(t, TierDepth, x, tier.inner.val)

\* The tiers of the tree that are not finalized: the eternity's, the focused
\* epoch's and the focused block's, each as <<t, tier>>.
TreeTiers(E) ==
    {<<3, E.inner>>}
        \cup (IF FocusedEpoch(E) = None THEN {} ELSE {<<2, FocusedEpoch(E)[1]>>})
        \cup (IF FocusedBlock(E) = None THEN {} ELSE {<<1, FocusedBlock(E)[1]>>})

\* C21: a tier compares equal to the complete tier its finalization keeps,
\* and when its finalization is a bare hash it equals no complete tier.
C21_HeterogeneousEq ==
    \A a \in TreeTiers(eternity) :
        LET Compared(f) ==
                IF f.tag = "Keep" THEN TierEqComplete(a[1], a[2], f.val)
                ELSE \A n \in TreeNodes(eternity) :
                        (n[1] = a[1] /\ n[2] = TierDepth) =>
                            ~TierEqComplete(a[1], a[2], n[3])
        IN  Compared(TierFinalize(a[1], a[2]))

\* C21 witness: an active epoch tier finalizes to a complete tier although
\* its focused block witnesses nothing, and an active block tier finalizes
\* to a bare hash while the tree holds a complete block.
C21_Witness ==
    /\ FocusedEpoch(eternity) # None /\ FocusedBlock(eternity) # None
    /\ FocusedEpoch(eternity)[1].inner.st = "Active"
    /\ FocusedBlock(eternity)[1].inner.st = "Active"
    /\ TierFinalize(2, FocusedEpoch(eternity)[1]).tag = "Keep"
    /\ TierFinalize(1, FocusedBlock(eternity)[1]).tag = "Hash"
    /\ \E n \in TreeNodes(eternity) : n[1] = 1

\* The items Tier::insert is handed at level t.
TierItems(t) ==
    IF t = 1 THEN ItemInputs
    ELSE {IF x.tag = "Hash" THEN x ELSE Keep(x.val.inner) :
            x \in IF t = 2 THEN BlockInputs ELSE EpochInputs}

\* C22: a tier that is Complete or Hash refuses every insert, handing the
\* item back, and insert, update, focus and hash leave it in that state.
C22_TerminalStates ==
    \A a \in TreeTiers(eternity) :
        a[2].inner.st # "Active" =>
            /\ \A x \in TierItems(a[1]) :
                  /\ TierInsert(a[1], a[2], x) = [tier |-> a[2], ok |-> FALSE, item |-> x]
                  /\ TierUpdate(a[2], x) = a[2]
            /\ TierFocus(a[2]) = None
            /\ TierFill(a[1], a[2]).inner.st = a[2].inner.st
            /\ TierHash(a[1], TierFill(a[1], a[2])) = TierHash(a[1], a[2])

\* C22 witness: the current block became Complete when it refused an item.
C22_Witness ==
    /\ last.op = "insert" /\ last.err = "BlockFull"
    /\ FocusedBlock(eternity) # None
    /\ FocusedBlock(eternity)[1].inner.st = "Complete"

\* The positions beneath a tier of level t, relative to the tier.
TierPositions(t) == 0..(Pow4(t * TierDepth) - 1)

\* C23 as stated: a tier turns into Inner::Hash only if it took its full
\* capacity of insertions and every descendant was inserted as a hash, here
\* for the block that the next commitment would go into: no commitment went
\* into it with Witness::Keep.
C23_HashOnlyIfHashInserted ==
    (FocusedBlock(eternity) # None /\ FocusedBlock(eternity)[1].inner.st = "Active") =>
        \A x \in ItemInputs :
            TierInsert(1, FocusedBlock(eternity)[1], x).tier.inner.st = "Hash" =>
                /\ TierSlots(FocusedBlock(eternity)[1]) = Cap
                /\ ~recent.kept

\* C23: a tier turns into Inner::Hash only if it took its full capacity of
\* insertions and no leaf beneath it is witnessed any more (each one was
\* inserted as a hash or forgotten since): a rejected insertion turns only a
\* full tier without a witnessed leaf into Hash, and forgetting turns a
\* Complete tier into Hash only when the forgotten leaf was the last
\* witnessed one.
C23_HashOnlyIfUnwitnessed ==
    \A a \in TreeTiers(eternity) :
        /\ a[2].inner.st = "Active" =>
              \A x \in TierItems(a[1]) :
                  LET Switched(r) ==
                          r.tier.inner.st = "Hash" =>
                              /\ ~r.ok
                              /\ TierSlots(a[2]) = Cap
                              /\ TierKept(a[1], a[2], 0) = {}
                  IN  Switched(TierInsert(a[1], a[2], x))
        /\ a[2].inner.st = "Complete" =>
              \A i \in TierPositions(a[1]) :
                  LET Collapsed(r) ==
                          r.tier.inner.st = "Hash" =>
                              /\ r.forgotten
                              /\ \A q \in TierKept(a[1], a[2], 0) : q[1] = i
                  IN  Collapsed(TierForget(a[1], a[2], i))

\* C23 witness: a block that took a commitment with Witness::Keep, lost it to
\* forget, was filled up and turned into Inner::Hash on a rejected insert.
C23_Witness ==
    /\ last.op = "insert" /\ last.err = "BlockFull"
    /\ recent.kept
    /\ FocusedBlock(eternity) # None
    /\ FocusedBlock(eternity)[1].inner.st = "Hash"

\* Tier::len and Tier::size: the two counters of the tier.
TierLen(tier) == tier.len

TierSize(tier) == tier.witnessed

\* C24: len() of a tier is the number of insertions made into it and size()
\* the number of those made with Insert::Keep, here for the tiers that are
\* still taking insertions: len() is the number of slots taken, and the
\* block that took a commitment with Witness::Keep has size() at least 1.
C24_LenCountsInsertions ==
    /\ \A a \in TreeTiers(eternity) :
          a[2].inner.st = "Active" => TierLen(a[2]) = TierSlots(a[2])
    /\ (FocusedBlock(eternity) # None /\ recent.kept) =>
          TierSize(FocusedBlock(eternity)[1]) >= 1

\* Tier::cached_hash, as the set of values it can return: an empty active
\* tier gives the default hash, a Hash tier its hash, a Complete tier the
\* cache of its top node, and a tier with an active tree either nothing or
\* the hash of that tree, whose cache is not part of the state here.
TierCachedHash(t, tier) ==
    IF tier.inner.st = "Active"
    THEN IF tier.inner.val = None THEN {Some(HashDefault)}
         ELSE {NoHash, Some(ActiveHash(t, TierDepth, tier.inner.val[1]))}
    ELSE IF tier.inner.st = "Complete" THEN {tier.inner.val.hash}
    ELSE {Some(tier.inner.val)}

\* C25: a tier that took no insertion hashes to Hash::default(), from hash()
\* and from cached_hash() alike, and is_empty() holds of exactly the tiers
\* that took no insertion, never of a Complete or a Hash tier.
C25_EmptyTier ==
    \A a \in TreeTiers(eternity) \cup {<<1, TierNew>>} :
        /\ TierIsEmpty(a[2]) <=> TierSlots(a[2]) = 0
        /\ a[2].inner.st # "Active" => ~TierIsEmpty(a[2])
        /\ TierIsEmpty(a[2]) =>
              /\ TierHash(a[1], a[2]) = HashDefault
              /\ TierCachedHash(a[1], a[2]) = {Some(HashDefault)}

\* C25 witness: the root was read while the epoch the next insertion would
\* go into was still empty, beneath an eternity that is not.
C25_Witness ==
    /\ last.op = "root"
    /\ ~TierIsEmpty(eternity.inner)
    /\ FocusedEpoch(eternity) # None
    /\ TierIsEmpty(FocusedEpoch(eternity)[1])

\* C26: Tier::finalize gives Keep of a complete tier exactly when a leaf
\* beneath the tier is still witnessed, and then the complete tier witnesses
\* the same leaves; otherwise it gives a hash, and for a tier that took no
\* insertion the default hash.
C26_Finalize ==
    \A a \in TreeTiers(eternity) \cup {<<1, TierNew>>} :
        LET Finalized(f) ==
                /\ f.tag = "Keep" <=> TierKept(a[1], a[2], 0) # {}
                /\ f.tag = "Keep" =>
                      CompleteKept(a[1], TierDepth, f.val, 0) = TierKept(a[1], a[2], 0)
                /\ TierIsEmpty(a[2]) => f = HashIns(HashDefault)
        IN  Finalized(TierFinalize(a[1], a[2]))

\* C26 witness: a second block was started in an epoch, so the first one was
\* finalized, and of the tiers still taking insertions one witnesses a leaf
\* and one, not empty, witnesses none.
C26_Witness ==
    /\ FocusedEpoch(eternity) # None
    /\ TierSlots(FocusedEpoch(eternity)[1]) >= 2
    /\ FocusedBlock(eternity) # None
    /\ FocusedBlock(eternity)[1].inner.st = "Active"
    /\ TierSlots(FocusedBlock(eternity)[1]) >= 1
    /\ TierKept(1, FocusedBlock(eternity)[1], 0) = {}
    /\ TierKept(2, FocusedEpoch(eternity)[1], 0) # {}

\* Eternity::position_of.
EternityPositionOf(E, c) == IF c \in DOMAIN E.index THEN Some(E.index[c]) ELSE None

\* What a caller can observe of an eternity: root(), position(),
\* witnessed_count() and position_of(c) for every commitment.
Observed(E) ==
    <<EternityRoot(E), E.position, EternityWitnessedCount(E),
      [c \in Commitments |-> EternityPositionOf(E, c)]>>

\* C27: a failing insert, insert_block, insert_block_root, insert_epoch or
\* insert_epoch_root leaves root(), position(), witnessed_count() and
\* position_of(c) for every c as they were.
C27_FailureKeepsObserved ==
    /\ \A x \in ItemInputs :
          LET Kept(r) == r.err # "" => Observed(r.e) = Observed(eternity)
          IN  Kept(InsertCommitmentOrHash(eternity, x))
    /\ \A x \in BlockInputs :
          LET Kept(r) == r.err # "" => Observed(r.e) = Observed(eternity)
          IN  Kept(InsertBlockOrRoot(eternity, x))
    /\ \A x \in EpochInputs :
          LET Kept(r) == ~r.ok => Observed(r.e) = Observed(eternity)
          IN  Kept(InsertEpochOrRoot(eternity, x))

\* C27 witness: an insert_block was refused by a full epoch, which the
\* refusal left Complete, while a commitment is witnessed.
C27_Witness ==
    /\ last.op = "insert_block" /\ last.err = "EpochFull"
    /\ FocusedEpoch(eternity) # None
    /\ FocusedEpoch(eternity)[1].inner.st = "Complete"
    /\ DOMAIN eternity.index # {}

\* C28: the hash of what Tier::finalize returns is the hash the tier had, and
\* a tier that a rejected insertion turns from Active into Complete or Hash
\* has the hash it had before.
C28_HashPreserved ==
    \A a \in TreeTiers(eternity) \cup {<<1, TierNew>>} :
        /\ CompleteInsertHash(a[1], TierDepth, TierFinalize(a[1], a[2]))
              = TierHash(a[1], a[2])
        /\ \A x \in TierItems(a[1]) :
              LET Rejected(r) == ~r.ok => TierHash(a[1], r.tier) = TierHash(a[1], a[2])
              IN  Rejected(TierInsert(a[1], a[2], x))

\* C28 witness: the block that the next commitment would go into is full and
\* still active, one way with a witnessed leaf and so about to become
\* Complete, the other way without and about to become Hash.
C28_Witness ==
    /\ FocusedBlock(eternity) # None
    /\ FocusedBlock(eternity)[1].inner.st = "Active"
    /\ TierSlots(FocusedBlock(eternity)[1]) = Cap
    /\ TierKept(1, FocusedBlock(eternity)[1], 0) = {}
    /\ FocusedEpoch(eternity)[1].inner.st = "Active"
    /\ TierSlots(FocusedEpoch(eternity)[1]) = Cap
    /\ TierKept(2, FocusedEpoch(eternity)[1], 0) # {}

\* The indices that forget_owned and witness take at a node of level k of
\* tier t.
NodeIndices(t, k) == 0..(Pow4(HeightOf(t, k)) - 1)

\* C29: forget_owned on a complete node changes at most the child that the
\* index selects at the node's height: the other three children come back
\* as they were (as the same hashes when the node collapses into a hash); a
\* selected child that is a hash gives back the same four children and
\* false; and true is returned only when the leaf at the index was
\* witnessed, which is then the one leaf no longer witnessed.
C29_ForgetFrame ==
    \A n \in TreeNodes(eternity) : \A i \in NodeIndices(n[1], n[2]) :
        LET x == n[3]
            w == WhichWayAt(HeightOf(n[1], n[2]), i) + 1
            before == CompleteKept(n[1], n[2], x, 0)
            Framed(r) ==
                /\ r.node.tag = "Keep" =>
                      /\ \A j \in 1..4 : j # w => r.node.val.children[j] = x.children[j]
                      /\ CompleteKept(n[1], n[2], r.node.val, 0)
                            = {q \in before : q[1] # i}
                /\ r.node.tag = "Hash" =>
                      /\ \A j \in 1..4 : j # w => x.children[j].tag = "Hash"
                      /\ r.node.val = CompleteRehash(n[1], n[2], x)
                      /\ \A q \in before : q[1] = i
                /\ x.children[w].tag = "Hash" =>
                      /\ r.node.tag = "Keep"
                      /\ r.node.val.children = x.children
                      /\ ~r.forgotten
                /\ r.forgotten <=> \E q \in before : q[1] = i
        IN  Framed(ForgetOwned(n[1], n[2], x, i))

\* C29 witness: a forget went through while the tree holds a complete node
\* with a hash child and a kept child, so that some index is refused at the
\* node and another one forgets a leaf beneath it.
C29_Witness ==
    /\ last.op = "forget" /\ last.flag
    /\ \E n \in TreeNodes(eternity) :
          /\ \E j \in 1..4 : n[3].children[j].tag = "Hash"
          /\ \E i \in NodeIndices(n[1], n[2]) :
                ForgetOwned(n[1], n[2], n[3], i).forgotten

\* C30: witness(index) on a complete node gives None when the child that the
\* index selects is a hash, and otherwise the hashes of the other three
\* children, left to right, followed by what witness(index) gives on the
\* selected child; it gives a path exactly when the leaf at the index is
\* witnessed, and it leaves the children of every node as they were.
C30_WitnessPath ==
    \A n \in TreeNodes(eternity) : \A i \in NodeIndices(n[1], n[2]) :
        LET x == n[3]
            w == WhichWayAt(HeightOf(n[1], n[2]), i) + 1
            H(j) == IF x.children[j].tag = "Hash" THEN x.children[j].val
                    ELSE CompleteRehash(n[1], n[2] - 1, x.children[j].val)
            expected == IF w = 1 THEN <<H(2), H(3), H(4)>>
                        ELSE IF w = 2 THEN <<H(1), H(3), H(4)>>
                        ELSE IF w = 3 THEN <<H(1), H(2), H(4)>>
                        ELSE <<H(1), H(2), H(3)>>
            Below(r, sub) ==
                /\ (r = None) <=> (sub = None)
                /\ r # None =>
                      /\ Len(r[1].path) = HeightOf(n[1], n[2])
                      /\ r[1].path[1] = expected
                      /\ Tail(r[1].path) = sub[1].path
                      /\ r[1].leaf = sub[1].leaf
            Read(r) ==
                /\ x.children[w].tag = "Hash" => r = None
                /\ x.children[w].tag = "Keep" =>
                      Below(r, CompleteWitness(n[1], n[2] - 1, x.children[w].val, i))
                /\ (r # None) <=> \E q \in CompleteKept(n[1], n[2], x, 0) : q[1] = i
        IN  /\ Read(CompleteWitness(n[1], n[2], x, i))
            /\ CompleteEq(n[1], n[2], CompleteWitnessFill(n[1], n[2], x, i), x)

\* C30 witness: a witness was handed out while the tree holds a complete
\* node with a hash child and a kept child, so that the node gives a path
\* for one index and None for another.
C30_Witness ==
    /\ last.op = "witness" /\ last.wit.tag = "Some"
    /\ \E n \in TreeNodes(eternity) :
          /\ \E i \in NodeIndices(n[1], n[2]) :
                CompleteWitness(n[1], n[2], n[3], i) # None
          /\ \E i \in NodeIndices(n[1], n[2]) :
                n[3].children[WhichWayAt(HeightOf(n[1], n[2]), i) + 1].tag = "Hash"

\* C31: from_children_or_else_hash gives Hash of the node hash of the four
\* hashes exactly when all four children are hashes, and otherwise Keep of a
\* node with the four children in the order given and an empty hash cache;
\* either way the hash of the result is the node hash of the children's
\* hashes. It is tried on the children of every complete node of the tree,
\* with the ones at the slots in S replaced by their hashes.
C31_FromChildren ==
    \A n \in TreeNodes(eternity) : \A S \in SUBSET (1..4) :
        LET h == HeightOf(n[1], n[2])
            ch == [j \in 1..4 |->
                      IF j \in S /\ n[3].children[j].tag = "Keep"
                      THEN HashIns(CompleteRehash(n[1], n[2] - 1, n[3].children[j].val))
                      ELSE n[3].children[j]]
            H(j) == IF ch[j].tag = "Hash" THEN ch[j].val
                    ELSE CompleteRehash(n[1], n[2] - 1, ch[j].val)
            Built(r) ==
                /\ r.tag = "Hash" <=> \A j \in 1..4 : ch[j].tag = "Hash"
                /\ r.tag = "Hash" =>
                      r.val = HashNode(h, ch[1].val, ch[2].val, ch[3].val, ch[4].val)
                /\ r.tag = "Keep" => r.val = [hash |-> NoHash, children |-> ch]
                /\ CompleteInsertHash(n[1], n[2], r) = HashNode(h, H(1), H(2), H(3), H(4))
        IN  Built(FromChildrenOrElseHash(h, ch))

\* C31 witness: a forget rebuilt a node of the tree, and the tree holds a
\* complete node with two kept children, so that both outcomes are tried.
C31_Witness ==
    /\ last.op = "forget" /\ last.flag
    /\ \E n \in TreeNodes(eternity) :
          \E i, j \in 1..4 :
              i # j /\ n[3].children[i].tag = "Keep" /\ n[3].children[j].tag = "Keep"

RECURSIVE TierTaken(_, _, _)
RECURSIVE ActiveTaken(_, _, _, _)
\* The positions beneath a tier that hold a leaf or lie beneath a hash, with
\* `base` the position of the tier's first leaf: everything beneath a
\* Complete or Hash tier, and beneath an active tier what lies beneath its
\* siblings and its focus.
TierTaken(t, tier, base) ==
    IF tier.inner.st # "Active" THEN base..(base + Pow4(t * TierDepth) - 1)
    ELSE IF tier.inner.val = None THEN {}
    ELSE ActiveTaken(t, TierDepth, tier.inner.val[1], base)

ActiveTaken(t, k, a, base) ==
    IF k = 0
    THEN IF a.item.tag = "Keep" /\ t > 1 THEN TierTaken(t - 1, a.item.val, base)
         ELSE base..(base + Pow4(HeightOf(t, 0)) - 1)
    ELSE LET step == Pow4(HeightOf(t, k) - 1)
         IN  base..(base + Len(a.siblings) * step - 1)
                 \cup ActiveTaken(t, k - 1, a.focus, base + Len(a.siblings) * step)

\* The positions of the tree whose leaf is a hash, or lies beneath one.
HashAt(E) ==
    TierTaken(3, E.inner, 0) \ {q[1] : q \in TierKept(3, E.inner, 0)}

\* C32: a position whose leaf is a hash, or lies beneath a hash, stays so in
\* every later state; a leaf that is witnessed after a step was witnessed
\* before it with the same commitment, or its position was not taken.
C32_NeverRegained ==
    [][/\ HashAt(eternity) \subseteq HashAt(eternity')
       /\ \A q \in TierKept(3, eternity'.inner, 0) :
             \/ q \in TierKept(3, eternity.inner, 0)
             \/ q[1] \notin TierTaken(3, eternity.inner, 0)]_vars

\* C32 witness: a commitment was inserted again with Witness::Keep while the
\* leaf it was witnessed at before, now a hash, is still in the tree.
C32_Witness ==
    /\ last.op = "insert" /\ last.w = "Keep" /\ last.err = ""
    /\ \E q \in TierKept(3, eternity.inner, 0) :
          /\ q[2] = last.c
          /\ \E p \in HashAt(eternity) : p < q[1]

RECURSIVE ActiveEq(_, _, _, _)
RECURSIVE InnerEq(_, _, _)
\* Equality of two active subtrees of height k: the same siblings, hash
\* caches aside, and equal focuses down to the item; two tiers kept as items
\* are equal when their counters and their insides are.
ActiveEq(t, k, a, b) ==
    IF k = 0
    THEN /\ a.item.tag = b.item.tag
         /\ IF a.item.tag = "Hash" \/ t = 1 THEN a.item.val = b.item.val
            ELSE /\ a.item.val.len = b.item.val.len
                 /\ a.item.val.witnessed = b.item.val.witnessed
                 /\ InnerEq(t - 1, a.item.val.inner, b.item.val.inner)
    ELSE /\ Len(a.siblings) = Len(b.siblings)
         /\ \A i \in 1..Len(a.siblings) :
               CompleteInsertEq(t, k - 1, a.siblings[i], b.siblings[i])
         /\ ActiveEq(t, k - 1, a.focus, b.focus)

\* Faulty variant: a Hash tier equals every tier that has its hash.
InnerEq_by_hash(t, l, r) ==
    LET Mixed(active, complete) ==
            IF active.val = None THEN FALSE
            ELSE ActiveEqInsert(t, TierDepth, active.val[1], Keep(complete.val))
        Hashed(x) == TierHash(t, [len |-> 0, witnessed |-> 0, inner |-> x])
    IN  IF l.st = "Hash" \/ r.st = "Hash" THEN Hashed(l) = Hashed(r)
        ELSE IF l.st = "Active" /\ r.st = "Active"
        THEN IF l.val = None \/ r.val = None THEN l.val = r.val
             ELSE ActiveEq(t, TierDepth, l.val[1], r.val[1])
        ELSE IF l.st = "Complete" /\ r.st = "Complete"
        THEN CompleteEq(t, TierDepth, l.val, r.val)
        ELSE IF l.st = "Active" THEN Mixed(l, r)
        ELSE Mixed(r, l)

\* PartialEq for Inner.
InnerEq(t, l, r) ==
    LET Mixed(active, complete) ==
            IF active.val = None THEN FALSE
            ELSE ActiveEqInsert(t, TierDepth, active.val[1], Keep(complete.val))
    IN  IF l.st = "Hash" /\ r.st = "Hash" THEN l.val = r.val
        ELSE IF l.st = "Hash" \/ r.st = "Hash" THEN FALSE
        ELSE IF l.st = "Active" /\ r.st = "Active"
        THEN IF l.val = None \/ r.val = None THEN l.val = r.val
             ELSE ActiveEq(t, TierDepth, l.val[1], r.val[1])
        ELSE IF l.st = "Complete" /\ r.st = "Complete"
        THEN CompleteEq(t, TierDepth, l.val, r.val)
        ELSE IF l.st = "Active" THEN Mixed(l, r)
        ELSE Mixed(r, l)

\* The tier of level t that the next insertion would go into, a new one if
\* there is none.
TierAt(E, t) ==
    IF t = 3 THEN E.inner
    ELSE IF t = 2
    THEN IF FocusedEpoch(E) = None THEN TierNew ELSE FocusedEpoch(E)[1]
    ELSE IF FocusedBlock(E) = None THEN TierNew ELSE FocusedBlock(E)[1]

\* The insides of the tiers that a tier of level t is compared with: itself,
\* itself with the hash caches filled, what it finalizes to, a Hash tier of
\* its hash, the tier of the same level of the tree that witnesses nothing,
\* and an empty one.
Compared(t, tier) ==
    LET Finalized(f) ==
            IF f.tag = "Keep" THEN [st |-> "Complete", val |-> f.val]
            ELSE [st |-> "Hash", val |-> f.val]
    IN  <<tier.inner,
          TierFill(t, tier).inner,
          Finalized(TierFinalize(t, tier)),
          [st |-> "Hash", val |-> TierHash(t, tier)],
          TierAt(twin, t).inner,
          TierNew.inner>>

\* C33: equality of the insides of two tiers: a Hash tier equals exactly the
\* Hash tiers of the same hash; an empty Active tier equals no Complete tier;
\* a non-empty Active tier equals a Complete tier exactly when the two are
\* equal level by level, which a tier and what it finalizes to are; and
\* x == y holds exactly when y == x does.
C33_InnerEquality ==
    \A a \in TreeTiers(eternity) :
        LET t == a[1]
            V == Compared(t, a[2])
        IN  /\ \A i, j \in 1..Len(V) :
                  /\ InnerEq(t, V[i], V[j]) <=> InnerEq(t, V[j], V[i])
                  /\ V[i].st = "Hash" =>
                        (InnerEq(t, V[i], V[j]) <=>
                            (V[j].st = "Hash" /\ V[j].val = V[i].val))
                  /\ (V[i].st = "Active" /\ V[j].st = "Complete") =>
                        (InnerEq(t, V[i], V[j]) <=>
                            /\ V[i].val # None
                            /\ ActiveEqInsert(t, TierDepth, V[i].val[1], Keep(V[j].val)))
            /\ InnerEq(t, V[1], V[2])
            /\ V[3].st = "Complete" => InnerEq(t, V[1], V[3])

\* C33 witness: the block that the next commitment would go into is active,
\* witnesses a leaf and so equals the Complete tier it finalizes to, and the
\* block of the same place in the tree that witnesses nothing does not.
C33_Witness ==
    /\ FocusedBlock(eternity) # None
    /\ FocusedBlock(eternity)[1].inner.st = "Active"
    /\ TierFinalize(1, FocusedBlock(eternity)[1]).tag = "Keep"
    /\ InnerEq(1, FocusedBlock(eternity)[1].inner,
               [st |-> "Complete", val |-> TierFinalize(1, FocusedBlock(eternity)[1]).val])
    /\ ~InnerEq(1, FocusedBlock(eternity)[1].inner, TierAt(twin, 1).inner)
    /\ TierAt(twin, 1).inner.st = "Active"
    /\ TierAt(twin, 1).inner.val # None

\* Tier::update: the arguments that the function is called with, in order,
\* and whether Some or None is returned.
TierUpdateCalls(tier) ==
    IF tier.inner.st = "Active" /\ tier.inner.val # None
    THEN <<ActiveFocus(TierDepth, tier.inner.val[1])>>
    ELSE <<>>

\* C34: on an Active tier that holds an item, update calls the function
\* once, on the item inserted last, and changes nothing but that item; on an
\* empty, Complete or Hash tier it calls nothing, returns None and leaves
\* the tier as it is; focus is None in exactly the latter states; and the
\* focus after a successful insert is the item inserted.
C34_UpdateFrame ==
    \A a \in TreeTiers(eternity) \cup {<<1, TierNew>>} :
        LET t == a[1]
            tier == a[2]
            open == tier.inner.st = "Active" /\ TierSlots(tier) > 0
        IN  /\ TierFocus(tier) = None <=> ~open
            /\ Len(TierUpdateCalls(tier)) = IF open THEN 1 ELSE 0
            /\ (tier.inner.st = "Active" /\ tier.inner.val # None) <=> open
            /\ \A x \in TierItems(t) :
                  /\ open =>
                        /\ TierUpdateCalls(tier)[1] = TierFocus(tier)[1]
                        /\ TierFocus(TierUpdate(tier, x)) = Some(x)
                        /\ TierSlots(TierUpdate(tier, x)) = TierSlots(tier)
                        /\ TierUpdate(TierUpdate(tier, x), TierFocus(tier)[1]) = tier
                  /\ ~open => TierUpdate(tier, x) = tier
                  /\ LET Inserted(r) == r.ok => TierFocus(r.tier) = Some(x)
                     IN  Inserted(TierInsert(t, tier, x))

\* C34 witness: a commitment went into a block that already held one, in an
\* eternity of two epochs or more, so that the eternity updated its focused
\* epoch and the epoch its focused block.
C34_Witness ==
    /\ last.op = "insert" /\ last.err = ""
    /\ FocusedBlock(eternity) # None
    /\ FocusedBlock(eternity)[1].inner.st = "Active"
    /\ TierSlots(FocusedBlock(eternity)[1]) >= 2
    /\ TierSlots(eternity.inner) >= 2

\* C35: a successful insert_epoch leaves position() at the epoch index it
\* had when the eternity held no epoch, and one more otherwise, with the
\* block and commitment of the epoch's own position; a successful
\* insert_epoch_root does the same with block and commitment at their
\* maximum; and the epoch index, incremented, stays within its width.
C35_EpochPosition ==
    \A x \in EpochInputs :
        LET Placed(r) ==
                r.ok =>
                    /\ r.e.position.epoch =
                          IF TierSlots(eternity.inner) = 0 THEN eternity.position.epoch
                          ELSE eternity.position.epoch + 1
                    /\ r.e.position.epoch <= IndexMAX
                    /\ x.tag = "Keep" =>
                          /\ r.e.position.block = x.val.position.block
                          /\ r.e.position.commitment = x.val.position.commitment
                    /\ x.tag = "Hash" =>
                          /\ r.e.position.block = IndexMAX
                          /\ r.e.position.commitment = IndexMAX
        IN  Placed(InsertEpochOrRoot(eternity, x))

\* C35 witness: an epoch was inserted into an eternity that held three, and
\* filled it.
C35_Witness ==
    /\ last.op = "insert_epoch" /\ last.err = ""
    /\ eternity.position.epoch = IndexMAX
    /\ \A x \in EpochInputs : ~InsertEpochOrRoot(eternity, x).ok

\* C36: after a successful insert_epoch every commitment of the epoch's index
\* is indexed at the new epoch with the block and commitment it had in the
\* epoch, and its proof verifies against root(); the leaf where such a
\* commitment was indexed before is no longer witnessed; and no commitment
\* is witnessed at two positions.
C36_EpochIndexed ==
    \A x \in EpochInputs :
        x.tag = "Keep" =>
            LET old == eternity.index
                new == x.val.index
                Proved(e, c, w) ==
                    /\ w.tag = "Some"
                    /\ w.proof.position = e.index[c]
                    /\ ProofVerify(w.proof, EternityRoot(e))
                Checked(r) ==
                    r.ok =>
                        /\ \A c \in DOMAIN new :
                              /\ c \in DOMAIN r.e.index
                              /\ r.e.index[c] = [epoch |-> r.e.position.epoch,
                                                 block |-> new[c].block,
                                                 commitment |-> new[c].commitment]
                              /\ Proved(r.e, c, EternityWitness(r.e, c))
                        /\ \A c \in DOMAIN old \cap DOMAIN new :
                              \A l \in KeptLeaves(r.e) : l[1] # PosU64(old[c])
                        /\ \A l1, l2 \in KeptLeaves(r.e) : l1[2] = l2[2] => l1 = l2
            IN  Checked(InsertEpochOrRoot(eternity, x))

\* C36 witness: an epoch was inserted, a commitment is witnessed, and an
\* epoch that witnesses the same commitment can be inserted next.
C36_Witness ==
    /\ last.op = "insert_epoch" /\ last.err = ""
    /\ \E x \in EpochInputs :
          /\ x.tag = "Keep"
          /\ DOMAIN eternity.index \cap DOMAIN x.val.index # {}
          /\ InsertEpochOrRoot(eternity, x).ok

-----------------------------------------------------------------------------
(* the consensus worker: Worker::run and its handlers *)

\* Messages put on the queue in one run.
MaxMsgs == 3

\* A Message: the request; for DeliverTx what its transaction does in
\* deliver_tx (fail to decode, fail the stateless check, fail the stateful
\* check, pass all three and execute, or pass all three and fail in
\* execute_tx); whether the calls into App and Storage that the handler makes
\* return Ok; and whether the receiver of the response is still there when
\* the response is sent.
Messages ==
    {[req |-> k, tx |-> "", app_ok |-> ok, rx |-> rx] :
        k \in {"InitChain", "BeginBlock", "EndBlock", "Commit"},
        ok \in BOOLEAN, rx \in BOOLEAN}
    \cup {[req |-> "DeliverTx", tx |-> t, app_ok |-> TRUE, rx |-> rx] :
            t \in {"undecodable", "stateless_invalid", "stateful_invalid", "valid",
                   "unexecutable"},
            rx \in BOOLEAN}

\* Worker::init_chain. A handler gets the application and its storage,
\* [version |-> the latest version committed (0 for none), executed |-> the
\* transactions execute_tx was called with], and gives [tag, app, log]: Ok,
\* Err with the error, or Panic.
WorkerInitChain(app, msg) ==
    IF app.version > 0
    THEN [tag |-> "Err", app |-> app, log |-> "database already initialized"]
    ELSE IF ~msg.app_ok THEN [tag |-> "Err", app |-> app, log |-> "app"]
    ELSE [tag |-> "Ok", app |-> [app EXCEPT !.version = 1], log |-> ""]

\* Worker::begin_block.
WorkerBeginBlock(app, msg) ==
    IF ~msg.app_ok THEN [tag |-> "Err", app |-> app, log |-> "app"]
    ELSE [tag |-> "Ok", app |-> app, log |-> ""]

\* Faulty variant: the transaction is executed before it is checked.
WorkerDeliverTx_executes_first(app, msg) ==
    IF msg.tx = "undecodable" THEN [tag |-> "Err", app |-> app, log |-> msg.tx]
    ELSE LET done == [app EXCEPT !.executed = Append(@, msg.tx)]
         IN  IF msg.tx \in {"stateless_invalid", "stateful_invalid"}
             THEN [tag |-> "Err", app |-> done, log |-> msg.tx]
             ELSE IF msg.tx = "unexecutable" THEN [tag |-> "Panic", app |-> done, log |-> ""]
             ELSE [tag |-> "Ok", app |-> done, log |-> ""]

\* Worker::deliver_tx.
WorkerDeliverTx(app, msg) ==
    IF msg.tx = "undecodable" THEN [tag |-> "Err", app |-> app, log |-> msg.tx]
    ELSE IF msg.tx = "stateless_invalid" THEN [tag |-> "Err", app |-> app, log |-> msg.tx]
    ELSE IF msg.tx = "stateful_invalid" THEN [tag |-> "Err", app |-> app, log |-> msg.tx]
    ELSE LET called == [app EXCEPT !.executed = Append(@, msg.tx)]
         IN  IF msg.tx = "unexecutable" THEN [tag |-> "Panic", app |-> called, log |-> ""]
             ELSE [tag |-> "Ok", app |-> called, log |-> ""]

\* Worker::end_block.
WorkerEndBlock(app, msg) ==
    IF ~msg.app_ok THEN [tag |-> "Err", app |-> app, log |-> "app"]
    ELSE [tag |-> "Ok", app |-> app, log |-> ""]

\* Worker::commit.
WorkerCommit(app, msg) ==
    IF ~msg.app_ok THEN [tag |-> "Err", app |-> app, log |-> "app"]
    ELSE [tag |-> "Ok", app |-> [app EXCEPT !.version = @ + 1], log |-> ""]

\* The match of Worker::run: the response that is computed for a message,
\* [app, panic, rsp]; expect() panics on the Err of every handler but
\* deliver_tx, whose Err becomes a response with code 1 and the error text.
WorkerRespond(app, msg) ==
    LET Expect(kind, r) ==
            IF r.tag = "Ok"
            THEN [app |-> r.app, panic |-> FALSE,
                  rsp |-> [kind |-> kind, code |-> 0, log |-> ""]]
            ELSE [app |-> r.app, panic |-> TRUE, rsp |-> [kind |-> "", code |-> 0, log |-> ""]]
        Delivered(r) ==
            IF r.tag = "Panic"
            THEN [app |-> r.app, panic |-> TRUE, rsp |-> [kind |-> "", code |-> 0, log |-> ""]]
            ELSE [app |-> r.app, panic |-> FALSE,
                  rsp |-> [kind |-> "DeliverTx",
                           code |-> IF r.tag = "Ok" THEN 0 ELSE 1,
                           log |-> r.log]]
    IN  IF msg.req = "InitChain" THEN Expect("InitChain", WorkerInitChain(app, msg))
        ELSE IF msg.req = "BeginBlock" THEN Expect("BeginBlock", WorkerBeginBlock(app, msg))
        ELSE IF msg.req = "DeliverTx" THEN Delivered(WorkerDeliverTx(app, msg))
        ELSE IF msg.req = "EndBlock" THEN Expect("EndBlock", WorkerEndBlock(app, msg))
        ELSE Expect("Commit", WorkerCommit(app, msg))

\* self.queue.recv(): the next message, or the end of the loop and Ok(())
\* when the queue is closed and empty.
WorkerRecv(w) ==
    IF w.queue # <<>>
    THEN [w EXCEPT !.queue = Tail(@), !.cur = Some(Head(w.queue)),
                   !.taken = Append(@, Head(w.queue)), !.pc = "handle"]
    ELSE [w EXCEPT !.pc = "done", !.result = "Ok"]

\* The handler of the message taken, up to the response or the panic.
WorkerHandle(w) ==
    LET Handled(r) ==
            IF r.panic THEN [w EXCEPT !.pc = "panicked", !.app = r.app, !.before = w.app]
            ELSE [w EXCEPT !.pc = "send", !.app = r.app, !.before = w.app,
                           !.rsp = Some(r.rsp)]
    IN  Handled(WorkerRespond(w.app, w.cur[1]))

\* Faulty variant: the loop ends when the receiver of the response is gone.
WorkerSend_stops_on_drop(w) ==
    IF w.cur[1].rx
    THEN [w EXCEPT !.sent = Append(@, [rsp |-> w.rsp[1], arrived |-> TRUE]),
                   !.cur = None, !.rsp = None, !.pc = "recv"]
    ELSE [w EXCEPT !.cur = None, !.rsp = None, !.pc = "done", !.result = "Ok"]

\* let _ = rsp_sender.send(..): the response is sent, whether or not it
\* arrives, and the loop goes on.
WorkerSend(w) ==
    [w EXCEPT !.sent = Append(@, [rsp |-> w.rsp[1], arrived |-> w.cur[1].rx]),
              !.cur = None, !.rsp = None, !.pc = "recv"]

\* The worker before run: nothing queued, the senders alive, the application
\* new; `posted` and `taken` are the messages put on the queue and taken
\* from it, `sent` the responses sent, each with whether it arrived, and
\* `before` the application as the last handler found it.
WorkerInit ==
    /\ worker = [queue |-> <<>>, closed |-> FALSE, pc |-> "recv", cur |-> None,
                 rsp |-> None, app |-> [version |-> 0, executed |-> <<>>],
                 before |-> [version |-> 0, executed |-> <<>>], sent |-> <<>>,
                 posted |-> <<>>, taken |-> <<>>, result |-> ""]
    /\ rates = None
    /\ epoch_proof = None
    /\ TreeAtRest

\* A caller puts a message on the queue.
Post(msg) ==
    /\ ~worker.closed
    /\ Len(worker.posted) < MaxMsgs
    /\ worker' = [worker EXCEPT !.queue = Append(@, msg), !.posted = Append(@, msg)]
    /\ UNCHANGED <<eternity, twin, last, recent, nops, rates, epoch_proof>>

\* The last sender is dropped.
Close ==
    /\ ~worker.closed
    /\ worker' = [worker EXCEPT !.closed = TRUE]
    /\ UNCHANGED <<eternity, twin, last, recent, nops, rates, epoch_proof>>

Recv ==
    /\ worker.pc = "recv"
    /\ worker.queue # <<>> \/ worker.closed
    /\ worker' = WorkerRecv(worker)
    /\ UNCHANGED <<eternity, twin, last, recent, nops, rates, epoch_proof>>

Handle ==
    /\ worker.pc = "handle"
    /\ worker' = WorkerHandle(worker)
    /\ UNCHANGED <<eternity, twin, last, recent, nops, rates, epoch_proof>>

Send ==
    /\ worker.pc = "send"
    /\ worker' = WorkerSend(worker)
    /\ UNCHANGED <<eternity, twin, last, recent, nops, rates, epoch_proof>>

WorkerNext ==
    \/ \E msg \in Messages : Post(msg)
    \/ Close
    \/ Recv
    \/ Handle
    \/ Send

WorkerSpec == WorkerInit /\ [][WorkerNext]_vars

\* C37 as stated: the worker answers every request it takes, in queue order,
\* with one response of the matching kind before it takes the next one, and
\* run returns Ok once the queue is closed and drained.
C37_OneResponseEach ==
    /\ worker.taken \o worker.queue = worker.posted
    /\ worker.pc # "panicked"
    /\ worker.pc \in {"recv", "done"} => Len(worker.sent) = Len(worker.taken)
    /\ \A i \in 1..Len(worker.sent) : worker.sent[i].rsp.kind = worker.taken[i].req
    /\ worker.pc = "done" => worker.closed /\ worker.queue = <<>> /\ worker.result = "Ok"

\* C37: requests are taken one at a time in queue order; each request whose
\* handler succeeds gets exactly one response of the matching kind before the
\* next request is taken, whether or not the response arrives; run returns Ok
\* once the queue is closed and drained; and when a handler fails where the
\* code expects success (an error of InitChain, the second InitChain among
\* them, of BeginBlock, EndBlock or Commit, or of execute_tx), the worker
\* panics, with no response for that request and no request taken after it.
C37_InOrderUntilPanic ==
    LET MustPanic(app, msg) ==
            \/ msg.req = "InitChain" /\ app.version > 0
            \/ msg.req # "DeliverTx" /\ ~msg.app_ok
            \/ msg.req = "DeliverTx" /\ msg.tx = "unexecutable"
    IN  /\ worker.taken \o worker.queue = worker.posted
        /\ Len(worker.sent) =
              Len(worker.taken)
                  - (IF worker.pc \in {"handle", "send", "panicked"} THEN 1 ELSE 0)
        /\ \A i \in 1..Len(worker.sent) :
              /\ worker.sent[i].rsp.kind = worker.taken[i].req
              /\ worker.sent[i].arrived = worker.taken[i].rx
        /\ worker.pc = "panicked" => MustPanic(worker.before, worker.cur[1])
        /\ worker.pc = "send" => ~MustPanic(worker.before, worker.cur[1])
        /\ worker.pc = "done" =>
              /\ worker.closed
              /\ worker.queue = <<>>
              /\ worker.result = "Ok"
              /\ worker.cur = None
        /\ (worker.pc = "recv" /\ worker.closed /\ worker.queue = <<>>) =>
              WorkerRecv(worker).pc = "done" /\ WorkerRecv(worker).result = "Ok"
        /\ (worker.pc = "recv" /\ worker.queue # <<>>) =>
              WorkerRecv(worker).cur = Some(Head(worker.queue))

\* Three requests were answered in order although the receiver of the first
\* response was gone, and run returned Ok.
C37_Witness ==
    /\ worker.pc = "done"
    /\ worker.result = "Ok"
    /\ Len(worker.sent) = MaxMsgs
    /\ ~worker.sent[1].arrived
    /\ worker.sent[2].rsp.kind = "DeliverTx"
    /\ worker.sent[MaxMsgs].rsp.kind = "Commit"

\* C38 as stated: an invalid transaction is not executed, leaves the
\* application as it was and is answered with code 1 and the error, and the
\* worker goes on; a transaction that passes the three checks is executed and
\* answered with code 0.
C38_ValidGetsCodeZero ==
    (worker.pc = "handle" /\ worker.cur[1].req = "DeliverTx") =>
        LET tx == worker.cur[1].tx
            Checked(w) ==
                IF tx \in {"undecodable", "stateless_invalid", "stateful_invalid"}
                THEN /\ w.app = worker.app
                     /\ w.pc = "send"
                     /\ w.rsp[1] = [kind |-> "DeliverTx", code |-> 1, log |-> tx]
                     /\ WorkerSend(w).pc = "recv"
                ELSE /\ w.app.executed = Append(worker.app.executed, tx)
                     /\ w.pc = "send"
                     /\ w.rsp[1] = [kind |-> "DeliverTx", code |-> 0, log |-> ""]
        IN  Checked(WorkerHandle(worker))

\* C38: an invalid transaction is not executed, leaves the application as it
\* was and is answered with code 1 and the error, and the worker goes on; a
\* transaction that passes the three checks is executed, and it is answered
\* with code 0 if execute_tx succeeds, while the worker panics without a
\* response if execute_tx fails.
C38_OnlyValidApplied ==
    (worker.pc = "handle" /\ worker.cur[1].req = "DeliverTx") =>
        LET tx == worker.cur[1].tx
            Checked(w) ==
                IF tx \in {"undecodable", "stateless_invalid", "stateful_invalid"}
                THEN /\ w.app = worker.app
                     /\ w.pc = "send"
                     /\ w.rsp[1] = [kind |-> "DeliverTx", code |-> 1, log |-> tx]
                     /\ WorkerSend(w).pc = "recv"
                ELSE /\ w.app.executed = Append(worker.app.executed, tx)
                     /\ w.app.version = worker.app.version
                     /\ IF tx = "valid"
                        THEN /\ w.pc = "send"
                             /\ w.rsp[1] = [kind |-> "DeliverTx", code |-> 0, log |-> ""]
                        ELSE /\ w.pc = "panicked"
                             /\ w.rsp = None
        IN  Checked(WorkerHandle(worker))

\* An invalid transaction was answered with code 1, and the valid one after
\* it was executed and answered with code 0.
C38_Witness ==
    /\ Len(worker.sent) >= 2
    /\ worker.sent[1].rsp = [kind |-> "DeliverTx", code |-> 1, log |-> "stateful_invalid"]
    /\ worker.sent[2].rsp = [kind |-> "DeliverTx", code |-> 0, log |-> ""]
    /\ worker.app.executed = <<"valid">>

-----------------------------------------------------------------------------
(* the rate computations: RateData::next_rates, BaseRateData::next_base_rate *)

\* Natural numbers of any size, as the sequence of their digits to the base
\* 10^4, lowest first and without leading zeros; u64 values are kept in
\* their full width this way.
Base == 10000

RECURSIVE NumNorm(_)
NumNorm(a) ==
    IF a = <<>> THEN <<>>
    ELSE IF a[Len(a)] = 0 THEN NumNorm(SubSeq(a, 1, Len(a) - 1))
    ELSE a

\* a + b.
NumAdd(a, b) ==
    LET Limb(x, i) == IF i <= Len(x) THEN x[i] ELSE 0
        RECURSIVE From(_, _)
        From(i, carry) ==
            IF i > Len(a) /\ i > Len(b)
            THEN IF carry = 0 THEN <<>> ELSE <<carry>>
            ELSE LET sum == Limb(a, i) + Limb(b, i) + carry
                 IN  <<sum % Base>> \o From(i + 1, sum \div Base)
    IN  From(1, 0)

\* a - b, for a >= b.
NumSub(a, b) ==
    LET RECURSIVE From(_, _)
        From(i, borrow) ==
            IF i > Len(a) THEN <<>>
            ELSE LET d == a[i] - (IF i <= Len(b) THEN b[i] ELSE 0) - borrow
                 IN  IF d < 0 THEN <<d + Base>> \o From(i + 1, 1)
                     ELSE <<d>> \o From(i + 1, 0)
    IN  NumNorm(From(1, 0))

\* a < b.
NumLess(a, b) ==
    LET RECURSIVE From(_)
        From(i) ==
            IF i = 0 THEN FALSE
            ELSE IF a[i] # b[i] THEN a[i] < b[i]
            ELSE From(i - 1)
    IN  IF Len(a) # Len(b) THEN Len(a) < Len(b) ELSE From(Len(a))

\* a * b.
NumMul(a, b) ==
    LET RECURSIVE ByDigit(_, _, _)
        ByDigit(d, i, carry) ==
            IF i > Len(a)
            THEN IF carry = 0 THEN <<>> ELSE <<carry>>
            ELSE LET p == a[i] * d + carry
                 IN  <<p % Base>> \o ByDigit(d, i + 1, p \div Base)
        RECURSIVE From(_)
        From(j) ==
            IF j > Len(b) THEN <<>>
            ELSE NumAdd(ByDigit(b[j], 1, 0), <<0>> \o From(j + 1))
    IN  NumNorm(From(1))

\* Quotient and remainder of a by b, for b > 0: long division, each digit of
\* the quotient found by doubling the divisor.
NumDivMod(a, b) ==
    LET RECURSIVE Digit(_, _)
        Digit(x, y) ==
            IF NumLess(x, y) THEN [q |-> <<>>, r |-> x]
            ELSE LET Halved(h) ==
                         IF NumLess(h.r, y) THEN [q |-> NumAdd(h.q, h.q), r |-> h.r]
                         ELSE [q |-> NumAdd(NumAdd(h.q, h.q), <<1>>), r |-> NumSub(h.r, y)]
                 IN  Halved(Digit(x, NumAdd(y, y)))
        RECURSIVE From(_)
        From(i) ==
            IF i > Len(a) THEN [q |-> <<>>, r |-> <<>>]
            ELSE LET Lower(h, d) ==
                         [q |-> NumNorm(<<IF d.q = <<>> THEN 0 ELSE d.q[1]>> \o h.q),
                          r |-> d.r]
                     Higher(h) ==
                         Lower(h, Digit(NumNorm(<<a[i]>> \o h.r), b))
                 IN  Higher(From(i + 1))
    IN  From(1)

\* 2^64 and u64::MAX.
TwoTo64 == <<1616, 955, 737, 6744, 1844>>

U64MAX == <<1615, 955, 737, 6744, 1844>>

\* a + b on u64: what is left of the sum modulo 2^64, and whether the sum
\* was out of range.
U64Add(a, b) ==
    [v |-> NumDivMod(NumAdd(a, b), TwoTo64).r,
     overflow |-> ~NumLess(NumAdd(a, b), TwoTo64)]

\* a - b on u64.
U64Sub(a, b) ==
    IF NumLess(a, b)
    THEN [v |-> NumSub(NumAdd(a, TwoTo64), b), overflow |-> TRUE]
    ELSE [v |-> NumSub(a, b), overflow |-> FALSE]

\* Faulty variant: the product is kept in full, as a wider type would.
U64Mul_widening(a, b) ==
    [v |-> NumMul(a, b), overflow |-> FALSE]

\* a * b on u64.
U64Mul(a, b) ==
    [v |-> NumDivMod(NumMul(a, b), TwoTo64).r,
     overflow |-> ~NumLess(NumMul(a, b), TwoTo64)]

\* 3_0000.
BASE_REWARD_RATE == <<0, 3>>

\* 1_0000_0000.
E8 == <<0, 0, 1>>

\* Funding streams of a validator.
MaxStreams == 2

\* The funding streams, each by its rate_bps (a u16): 0, 2500 or 7501.
FundingStreams ==
    UNION {[1..n -> {<<>>, <<2500>>, <<7501>>}] : n \in 0..MaxStreams}

\* RateData, with voting powers from 0 to u64::MAX and exchange rates from
\* 1.0 (10^8) to 10^12.
RateDatas ==
    [epoch_index : {<<>>, U64MAX},
     voting_power : {<<>>, <<1>>, <<0, 100>>, <<0, 0, 0, 1>>, <<0, 0, 0, 0, 100>>, U64MAX},
     validator_reward_rate : {<<>>, BASE_REWARD_RATE, U64MAX},
     validator_exchange_rate : {E8, <<0, 2000, 1>>, <<0, 0, 0, 1>>}]

BaseRateDatas ==
    [epoch_index : {<<>>, U64MAX}, base_reward_rate : {BASE_REWARD_RATE},
     base_exchange_rate : {<<>>, E8, <<0, 3, 1>>, <<0, 0, 0, 0, 1000>>}]

\* RateData::next_rates: the RateData of wrapping arithmetic, the
\* expressions that overflowed, whether the division was by zero, and the
\* voting power adjustment that was computed.
NextRates(self, base_rate_data, funding_streams) ==
    LET RECURSIVE Fold(_)
        Fold(i) ==
            IF i = 0 THEN [v |-> <<>>, overflow |-> FALSE]
            ELSE LET Total(t) ==
                         LET Sum(x) == [v |-> x.v, overflow |-> t.overflow \/ x.overflow]
                         IN  Sum(U64Add(t.v, funding_streams[i]))
                 IN  Total(Fold(i - 1))
        commission_rate_bps == Fold(Len(funding_streams))
        scaled == U64Mul(commission_rate_bps.v, <<0, 1>>)
        kept == U64Sub(E8, scaled.v)
        reward == U64Mul(kept.v, BASE_REWARD_RATE)
        validator_reward_rate == NumDivMod(reward.v, E8).q
        plus_one == U64Add(self.validator_reward_rate, E8)
        exchange == U64Mul(self.validator_exchange_rate, plus_one.v)
        validator_exchange_rate == NumDivMod(exchange.v, E8).q
        adjusted == U64Mul(validator_exchange_rate, E8)
        divzero == base_rate_data.base_exchange_rate = <<>>
        voting_power_adjustment ==
            IF divzero THEN <<>>
            ELSE NumDivMod(adjusted.v, base_rate_data.base_exchange_rate).q
        epoch_index == U64Add(self.epoch_index, <<1>>)
        voting_power == U64Mul(self.voting_power, voting_power_adjustment)
    IN  [rates |-> [epoch_index |-> epoch_index.v,
                    voting_power |-> voting_power.v,
                    validator_reward_rate |-> validator_reward_rate,
                    validator_exchange_rate |-> validator_exchange_rate],
         overflowed |->
            {x \in {"commission", "reward_rate", "exchange_rate", "adjustment",
                    "epoch_index", "voting_power"} :
                \/ x = "commission" /\ commission_rate_bps.overflow
                \/ x = "reward_rate" /\ (scaled.overflow \/ kept.overflow \/ reward.overflow)
                \/ x = "exchange_rate" /\ (plus_one.overflow \/ exchange.overflow)
                \/ x = "adjustment" /\ adjusted.overflow
                \/ x = "epoch_index" /\ epoch_index.overflow
                \/ x = "voting_power" /\ voting_power.overflow},
         divzero |-> divzero,
         adjustment |-> voting_power_adjustment]

\* BaseRateData::next_base_rate, in the same form.
NextBaseRate(self) ==
    LET exchange == U64Mul(self.base_exchange_rate, NumAdd(BASE_REWARD_RATE, E8))
        epoch_index == U64Add(self.epoch_index, <<1>>)
    IN  [rates |-> [epoch_index |-> epoch_index.v,
                    base_reward_rate |-> BASE_REWARD_RATE,
                    base_exchange_rate |-> NumDivMod(exchange.v, E8).q],
         overflowed |->
            {x \in {"exchange_rate", "epoch_index"} :
                \/ x = "exchange_rate" /\ exchange.overflow
                \/ x = "epoch_index" /\ epoch_index.overflow},
         divzero |-> FALSE,
         adjustment |-> <<>>]

\* What the caller gets in a build: a panic on a division by zero and, with
\* overflow checks, on an overflow; the rates otherwise.
Outcome(build, r) ==
    IF r.divzero \/ (build = "debug" /\ r.overflowed # {})
    THEN [tag |-> "Panic", rates |-> None]
    ELSE [tag |-> "Ok", rates |-> Some(r.rates)]

\* The arguments of the call, and the build: with overflow checks (debug) an
\* overflow panics, without them (release) the value wraps.
RateInit ==
    /\ rates \in [self : RateDatas, base : BaseRateDatas, streams : FundingStreams,
                  build : {"debug", "release"}, op : {""}, computed : {None},
                  out : {None}]
    /\ worker = None
    /\ epoch_proof = None
    /\ TreeAtRest

CallNextRates ==
    /\ rates.op = ""
    /\ LET Returned(r) ==
               rates' = [rates EXCEPT !.op = "next_rates", !.computed = Some(r),
                                      !.out = Some(Outcome(rates.build, r))]
       IN  Returned(NextRates(rates.self, rates.base, rates.streams))
    /\ UNCHANGED <<eternity, twin, last, recent, nops, worker, epoch_proof>>

CallNextBaseRate ==
    /\ rates.op = ""
    /\ LET Returned(r) ==
               rates' = [rates EXCEPT !.op = "next_base_rate", !.computed = Some(r),
                                      !.out = Some(Outcome(rates.build, r))]
       IN  Returned(NextBaseRate(rates.base))
    /\ UNCHANGED <<eternity, twin, last, recent, nops, worker, epoch_proof>>

RateNext ==
    \/ CallNextRates
    \/ CallNextBaseRate

RateSpec == RateInit /\ [][RateNext]_vars

\* C39: whenever the mathematical product self.voting_power *
\* voting_power_adjustment of next_rates exceeds 2^64 - 1, the call does not
\* give the true product: it panics with overflow checks and returns the
\* product modulo 2^64 without them; the same holds of the products behind
\* the exchange rates of next_rates and of next_base_rate, which are divided
\* by 10^8; a product that fits is returned as it is.
C39_ProductOverflows ==
    rates.op # "" =>
        LET r == rates.computed[1]
            out == rates.out[1]
            Product(p, field, divisor) ==
                IF ~NumLess(p, TwoTo64)
                THEN /\ out.tag = "Ok" => out.rates[1][field] # NumDivMod(p, divisor).q
                     /\ rates.build = "debug" => out.tag = "Panic"
                     /\ (rates.build = "release" /\ ~r.divzero) =>
                            /\ out.tag = "Ok"
                            /\ out.rates[1][field] =
                                   NumDivMod(NumDivMod(p, TwoTo64).r, divisor).q
                ELSE out.tag = "Ok" => out.rates[1][field] = NumDivMod(p, divisor).q
        IN  IF rates.op = "next_rates"
            THEN /\ ~r.divzero =>
                        Product(NumMul(rates.self.voting_power, r.adjustment),
                                "voting_power", <<1>>)
                 /\ NumLess(NumAdd(rates.self.validator_reward_rate, E8), TwoTo64) =>
                        Product(NumMul(rates.self.validator_exchange_rate,
                                       NumAdd(rates.self.validator_reward_rate, E8)),
                                "validator_exchange_rate", E8)
            ELSE Product(NumMul(rates.base.base_exchange_rate, NumAdd(BASE_REWARD_RATE, E8)),
                         "base_exchange_rate", E8)

\* next_rates returned, without overflow checks, a voting power that is not
\* the product of the largest voting power and the adjustment, and nothing
\* else overflowed.
C39_Witness ==
    /\ rates.op = "next_rates"
    /\ rates.build = "release"
    /\ rates.self.voting_power = U64MAX
    /\ rates.computed[1].overflowed = {"voting_power"}
    /\ rates.out[1].tag = "Ok"
    /\ ~NumLess(NumMul(rates.self.voting_power, rates.computed[1].adjustment), TwoTo64)
    /\ rates.out[1].rates[1].voting_power #
           NumMul(rates.self.voting_power, rates.computed[1].adjustment)

-----------------------------------------------------------------------------
(* the proof of inclusion in an epoch: Proof::new, auth_path, commitment *)

\* The rows of an authentication path of an epoch: [[Hash; 3]; 16].
EpochHeight == 16

\* Rows of a table that differ from the row of default hashes.
MaxMarked == 2

\* The tables of sibling hashes, rows of three hashes out of {0, 1}, with at
\* most MaxMarked rows that are not the row <<0, 0, 0>>.
Tables ==
    UNION {{[i \in 1..EpochHeight |-> IF i \in M THEN f[i] ELSE <<0, 0, 0>>] :
               f \in [M -> [1..3 -> {0, 1}] \ {<<0, 0, 0>>}]} :
           M \in {M \in SUBSET (1..EpochHeight) : Cardinality(M) <= MaxMarked}}

\* Faulty variant: the rows are nested from the leaf to the root.
ProofNew_leaf_first(commitment, index, auth_path) ==
    LET RECURSIVE From(_)
        From(i) ==
            IF i > EpochHeight THEN [kind |-> "Leaf"]
            ELSE [kind |-> "Node", siblings |-> auth_path[EpochHeight + 1 - i],
                  child |-> From(i + 1)]
    IN  [leaf |-> commitment, position |-> index, auth_path |-> From(1)]

\* Proof::new: the last row p wraps Leaf, each row before wraps the path of
\* the rows after it, the first row a is the outermost Node.
ProofNew(commitment, index, auth_path) ==
    LET RECURSIVE From(_)
        From(i) ==
            IF i > EpochHeight THEN [kind |-> "Leaf"]
            ELSE [kind |-> "Node", siblings |-> auth_path[i], child |-> From(i + 1)]
    IN  [leaf |-> commitment, position |-> index, auth_path |-> From(1)]

\* Proof::auth_path: the siblings of the Node the proof holds, then those of
\* its child, down to the Leaf.
ProofAuthPath(p) ==
    LET RECURSIVE SiblingsOf(_)
        SiblingsOf(path) ==
            IF path.kind = "Leaf" THEN <<>>
            ELSE <<path.siblings>> \o SiblingsOf(path.child)
    IN  SiblingsOf(p.auth_path)

\* Proof::commitment.
ProofCommitment(p) ==
    p.leaf

ProofInit ==
    /\ epoch_proof \in [commitment : Commitments, position : {0, 65535}, table : Tables,
                        made : {None}, path : {None}, leaf : {None}]
    /\ worker = None
    /\ rates = None
    /\ TreeAtRest

CallProofNew ==
    /\ epoch_proof.made = None
    /\ epoch_proof' =
          [epoch_proof EXCEPT !.made = Some(ProofNew(epoch_proof.commitment,
                                                     epoch_proof.position,
                                                     epoch_proof.table))]
    /\ UNCHANGED <<eternity, twin, last, recent, nops, worker, rates>>

CallAuthPath ==
    /\ epoch_proof.made # None
    /\ epoch_proof.path = None
    /\ epoch_proof' = [epoch_proof EXCEPT !.path = Some(ProofAuthPath(epoch_proof.made[1]))]
    /\ UNCHANGED <<eternity, twin, last, recent, nops, worker, rates>>

CallCommitment ==
    /\ epoch_proof.made # None
    /\ epoch_proof.leaf = None
    /\ epoch_proof' = [epoch_proof EXCEPT !.leaf = Some(ProofCommitment(epoch_proof.made[1]))]
    /\ UNCHANGED <<eternity, twin, last, recent, nops, worker, rates>>

ProofNext ==
    \/ CallProofNew
    \/ CallAuthPath
    \/ CallCommitment

ProofSpec == ProofInit /\ [][ProofNext]_vars

\* C40: auth_path() of Proof::new(c, p, t) gives the sixteen rows of t in the
\* order of t, from the root to the leaf, and commitment() gives c.
C40_PathRoundTrip ==
    /\ epoch_proof.path # None =>
          /\ Len(epoch_proof.path[1]) = EpochHeight
          /\ \A i \in 1..EpochHeight : epoch_proof.path[1][i] = epoch_proof.table[i]
    /\ epoch_proof.leaf # None => epoch_proof.leaf[1] = epoch_proof.commitment
    /\ epoch_proof.made # None =>
          /\ epoch_proof.made[1].auth_path.siblings = epoch_proof.table[1]
          /\ ProofAuthPath(epoch_proof.made[1]) = epoch_proof.table

\* Both were read back from a proof whose first and last rows differ from
\* each other and from the rows between them.
C40_Witness ==
    /\ epoch_proof.path # None
    /\ epoch_proof.leaf = Some(2)
    /\ epoch_proof.table[1] = <<1, 0, 0>>
    /\ epoch_proof.table[EpochHeight] = <<0, 1, 1>>
    /\ epoch_proof.path[1][1] = <<1, 0, 0>>
    /\ epoch_proof.path[1][EpochHeight] = <<0, 1, 1>>

====
